---- MODULE Spec2Model ----
(***************************************************************************)
(* State-machine model of the file transfer server of sd0ric4/downloader:  *)
(* FileManager (filetransfer/server/file_manager.py), FileTransferService, *)
(* SessionManager and the server back-ends (filetransfer/server/           *)
(* transfer.py), and MessageBuilder (filetransfer/protocol/tools.py).      *)
(*                                                                         *)
(* Bytes are naturals 0..255, byte strings are sequences of bytes, and a   *)
(* 32-bit unsigned value (a CRC32, a header checksum) is the tuple of its  *)
(* four big-endian bytes, as struct.pack("!I", v) lays it out.  A text is   *)
(* the sequence of its ASCII codes; a path is a sequence of components,    *)
(* each a text.                                                            *)
(***************************************************************************)
EXTENDS Integers, Sequences, FiniteSets, TLC

VARIABLES
    files,            \* the file system: absolute path -> content of the regular file there
    dirs,             \* the directories that exist (absolute paths)
    state,            \* state[s]: message_builder.state of service s
    sequence_number,  \* sequence_number[s]: message_builder.sequence_number of service s
    session_id,       \* session_id[s]: message_builder.session_id of service s
    transfers,        \* transfers[s][id]: FileManager.transfers of service s
    memory_cache,     \* memory_cache[s][id]: FileManager.memory_cache of service s
    memory_usage,     \* memory_usage[s]: FileManager.memory_usage of service s
    sessions,         \* SessionManager._sessions: the live session entries
    backend,          \* the server class that accepts the connections
    conns,            \* conns[c]: the worker serving connection c and its client
    last,             \* the frame handled last, its reply and what the handler did
    verified          \* the paths a successful ChecksumVerify has published (history)

vars == << files, dirs, state, sequence_number, session_id, transfers,
           memory_cache, memory_usage, sessions, backend, conns, last, verified >>

(***************************************************************************)
(* Bounds of the model.                                                    *)
(***************************************************************************)
MaxFrames == 4       \* frames handled, over all services, before the model stops feeding them
MaxFileSize == 5     \* size of the largest file present when the server starts
NumServices == 2     \* FileTransferService instances alive in one run

(***************************************************************************)
(* Program constants, scaled: chunk_size 8192 -> 2, the hybrid threshold   *)
(* 10 * 1024 -> 3 (a one-chunk file is staged in memory, a file of two     *)
(* full chunks on disk, as in the source).                                 *)
(***************************************************************************)
chunk_size == 2
HybridThreshold == 3
PROTOCOL_MAGIC == 17474
ProtocolVersionV1 == 1

RECURSIVE SumOver(_, _)
SumOver(f, S) ==
    IF S = {} THEN 0 ELSE LET x == CHOOSE y \in S : TRUE IN f[x] + SumOver(f, S \ {x})

Min(a, b) == IF a < b THEN a ELSE b
Max(a, b) == IF a > b THEN a ELSE b

\* Python's None, one per type so that values stay comparable: no path, no byte
\* string (no buffer, no content, no checksum)
NoPath == << << -1 >> >>
NoData == << -1 >>

(***************************************************************************)
(* zlib.crc32: the reflected CRC-32 (polynomial 0xEDB88320), byte by byte  *)
(* through the table of the 256 one-byte remainders, as zlib computes it.  *)
(***************************************************************************)
Bit(a, k) == (a \div (2 ^ k)) % 2

XorBit(a, b, k) == ((Bit(a, k) + Bit(b, k)) % 2) * (2 ^ k)

XorByteBits(a, b) ==
    XorBit(a, b, 0) + XorBit(a, b, 1) + XorBit(a, b, 2) + XorBit(a, b, 3)
    + XorBit(a, b, 4) + XorBit(a, b, 5) + XorBit(a, b, 6) + XorBit(a, b, 7)

\* the XOR of two bytes, tabulated once
XorTable ==
    SubSeq([i \in 1..256 |-> SubSeq([j \in 1..256 |-> XorByteBits(i - 1, j - 1)], 1, 256)],
           1, 256)

XorByte(a, b) == XorTable[a + 1][b + 1]

XorU32(v, w) ==
    << XorByte(v[1], w[1]), XorByte(v[2], w[2]), XorByte(v[3], w[3]), XorByte(v[4], w[4]) >>

ShiftRight1(v) ==
    << v[1] \div 2,
       ((v[1] % 2) * 128) + (v[2] \div 2),
       ((v[2] % 2) * 128) + (v[3] \div 2),
       ((v[3] % 2) * 128) + (v[4] \div 2) >>

ShiftRight8(v) == << 0, v[1], v[2], v[3] >>

CrcPoly == << 237, 184, 131, 32 >>
AllOnes == << 255, 255, 255, 255 >>
ZeroU32 == << 0, 0, 0, 0 >>

CrcBit(c) == IF c[4] % 2 = 1 THEN XorU32(ShiftRight1(c), CrcPoly) ELSE ShiftRight1(c)

\* crc_table[i] is entry i + 1 of the sequence
CrcByteTable ==
    SubSeq([i \in 1..256 |->
              CrcBit(CrcBit(CrcBit(CrcBit(CrcBit(CrcBit(CrcBit(CrcBit(
                  << 0, 0, 0, i - 1 >>))))))))], 1, 256)

Byte == 0..255
U32 == [1..4 -> Byte]

\* one step of the table-driven loop: crc = table[(crc ^ byte) & 0xFF] ^ (crc >> 8)
CrcStep == [c \in U32, b \in Byte |->
              XorU32(CrcByteTable[XorByte(c[4], b) + 1], ShiftRight8(c))]

\* the register after the first n bytes
CrcUpdate(bytes, n) ==
    LET reg[k \in 0..Len(bytes)] ==
            IF k = 0 THEN AllOnes ELSE CrcStep[reg[k - 1], bytes[k]]
    IN  reg[n]

crc32(bytes) == XorU32(CrcUpdate(bytes, Len(bytes)), AllOnes)

\* b"\0" * n
Zeros(n) == [i \in 1..n |-> 0]

(***************************************************************************)
(* struct.pack / struct.unpack for "!I" and "!Q".  A u32 is already its    *)
(* four bytes; a small natural n packs to three zero bytes and n.          *)
(***************************************************************************)
PackI(n) == << 0, 0, 0, n >>
PackQ(n) == << 0, 0, 0, 0, 0, 0, 0, n >>
UnpackI(payload) == IF Len(payload) = 4 THEN payload ELSE NoData
UnpackQ(payload) ==
    IF Len(payload) = 8 /\ \A i \in 1..7 : payload[i] = 0 THEN payload[8] ELSE -1

(***************************************************************************)
(* bytes.decode("utf-8"): a byte below 128 is its own character, a lone    *)
(* byte of 128 or more is not valid UTF-8 (UnicodeDecodeError).            *)
(***************************************************************************)
Utf8Decodes(bytes) == \A i \in 1..Len(bytes) : bytes[i] < 128

(***************************************************************************)
(* pathlib and the operating system's path resolution.                     *)
(***************************************************************************)
RECURSIVE SplitPath(_, _)
\* the components of a text, split at "/" (47); cur is the component being read
SplitPath(text, cur) ==
    IF text = << >> THEN (IF cur = << >> THEN << >> ELSE << cur >>)
    ELSE IF Head(text) = 47
         THEN (IF cur = << >> THEN << >> ELSE << cur >>) \o SplitPath(Tail(text), << >>)
         ELSE SplitPath(Tail(text), Append(cur, Head(text)))

IsAbsolute(text) == text # << >> /\ Head(text) = 47

\* Path(base) / text: an absolute text replaces the base
JoinPath(base, text) ==
    IF IsAbsolute(text) THEN SplitPath(text, << >>) ELSE base \o SplitPath(text, << >>)

DotDot == << 46, 46 >>
Dot == << 46 >>

RECURSIVE Resolve(_, _, _)
\* the kernel's walk of an un-normalised path from the directory at: each
\* component but the last must lead to an existing directory; ".." goes up
Resolve(at, comps, D) ==
    IF comps = << >> THEN at
    ELSE IF at \notin D THEN NoPath
    ELSE IF Head(comps) = Dot THEN Resolve(at, Tail(comps), D)
    ELSE IF Head(comps) = DotDot
         THEN Resolve(IF at = << >> THEN at ELSE SubSeq(at, 1, Len(at) - 1), Tail(comps), D)
         ELSE Resolve(Append(at, Head(comps)), Tail(comps), D)

IsPrefix(p, q) == Len(p) <= Len(q) /\ SubSeq(q, 1, Len(p)) = p

Parent(path) == IF path = << >> THEN path ELSE SubSeq(path, 1, Len(path) - 1)

(***************************************************************************)
(* The directory layout.  root_dir is /r, the temp directory is /t and the *)
(* SessionManager gives service s the subdirectory /t/<s>.  /x is a file   *)
(* name outside both.                                                      *)
(***************************************************************************)
root_dir == << << 114 >> >>
temp_root == << << 116 >> >>
Services == 1..NumServices
TempDirOf(s) == Append(temp_root, << 48 + s >>)

\* header.session_id values a client puts in its frames; file_id = str(session_id)
SessionIds == {0, 1}
FileIdText(id) == << 48 + id >>
\* f"{file_id}_{filename}"
TempName(id, filename) == FileIdText(id) \o << 95 >> \o filename

Exists(path, F, D) == path # NoPath /\ (path \in DOMAIN F \/ path \in D)

\* Path.mkdir(parents=True, exist_ok=True) of the directory path
RECURSIVE MkdirParents(_, _)
MkdirParents(path, D) ==
    IF path \in D \/ path = << >> THEN D
    ELSE MkdirParents(Parent(path), D) \cup {path}

(***************************************************************************)
(* FileManager.  A world W is the part of the state one FileManager call   *)
(* reads and writes: the file system and the manager's own fields.  Every  *)
(* operation returns the world after the call and the value returned.      *)
(***************************************************************************)
NoCtx == [live |-> FALSE]

World(s) ==
    [ files |-> files, dirs |-> dirs, transfers |-> transfers[s],
      memory_cache |-> memory_cache[s], memory_usage |-> memory_usage[s] ]

Ret(W, v) == [w |-> W, ret |-> v]

\* ceil(file_size / chunk_size), as prepare_transfer and TransferContext compute it
TotalChunks(file_size) == (file_size + chunk_size - 1) \div chunk_size

\* FileManager._should_use_memory under the default HYBRID strategy
ShouldUseMemory(file_size) == file_size <= HybridThreshold

\* bytes [from, from + n) of content (0-based), as f.seek(from); f.read(n)
ReadAt(content, from, n) ==
    IF from >= Len(content) THEN << >>
    ELSE SubSeq(content, from + 1, Min(from + n, Len(content)))

\* the chunks prepare_transfer finds in an existing temp file: those holding a non-zero byte
ChunksFound(content, file_size) ==
    { i \in 0..(TotalChunks(file_size) - 1) :
        LET chunk == ReadAt(content, i * chunk_size, chunk_size)
        IN  \E k \in 1..Len(chunk) : chunk[k] # 0 }

\* FileManager.prepare_transfer; tdir is the manager's temp_dir
prepare_transfer(W, tdir, file_id, filename, file_size) ==
    LET use_memory == ShouldUseMemory(file_size)
        temp_path == Resolve(<< >>, JoinPath(tdir, TempName(file_id, filename)), W.dirs)
        found == IF ~use_memory /\ temp_path \in DOMAIN W.files
                 THEN ChunksFound(W.files[temp_path], file_size)
                 ELSE {}
        context == [ live |-> TRUE, filename |-> filename, file_size |-> file_size,
                     use_memory |-> use_memory, chunks_received |-> found,
                     temp_path |-> IF use_memory THEN NoPath
                                   ELSE JoinPath(tdir, TempName(file_id, filename)),
                     checksum |-> NoData ]
    IN  IF ~use_memory /\ temp_path \in W.dirs
        THEN Ret(W, NoCtx)       \* open() of a directory raises
        ELSE Ret([W EXCEPT !.transfers = [@ EXCEPT ![file_id] = context],
                           !.memory_cache = IF use_memory
                                            THEN [@ EXCEPT ![file_id] = << >>] ELSE @,
                           !.memory_usage = IF use_memory THEN @ + file_size ELSE @],
                 context)

\* a write that ignores the offset and appends
WriteAppended(old, pos, chunk) == old \o chunk

\* the content after writing chunk at offset pos into old, zero-filling a gap
WriteInto(old, pos, chunk) ==
    LET padded == IF pos > Len(old) THEN old \o Zeros(pos - Len(old)) ELSE old
    IN  SubSeq(padded, 1, pos) \o chunk
          \o (IF pos + Len(chunk) < Len(padded)
              THEN SubSeq(padded, pos + Len(chunk) + 1, Len(padded)) ELSE << >>)

\* the size checks with the first one off by one (pos > file_size)
WriteInRangeOffByOne(pos, len, file_size) == ~(pos > file_size) /\ ~(pos + len > file_size)

\* the size checks without the first one
WriteInRangeEndOnly(pos, len, file_size) == ~(pos + len > file_size)

\* the two size checks of write_chunk: the write starts and ends within file_size
WriteInRange(pos, len, file_size) == ~(pos >= file_size) /\ ~(pos + len > file_size)

\* FileManager.write_chunk
write_chunk(W, file_id, chunk, chunk_number) ==
    LET context == W.transfers[file_id]
        pos == chunk_number * chunk_size
        write_end == pos + Len(chunk)
        temp == Resolve(<< >>, context.temp_path, W.dirs)
        old == IF temp \in DOMAIN W.files THEN W.files[temp] ELSE << >>
        written == WriteInto(old, pos, chunk)
        \* truncate() at the position after the write, when it is the end of the file
        kept == IF write_end = context.file_size THEN SubSeq(written, 1, write_end)
                ELSE written
        marked == [context EXCEPT !.chunks_received = @ \cup {chunk_number}]
    IN  IF ~context.live THEN Ret(W, FALSE)
        ELSE IF ~WriteInRange(pos, Len(chunk), context.file_size) THEN Ret(W, FALSE)
        ELSE IF context.use_memory
        THEN IF W.memory_cache[file_id] = NoData THEN Ret(W, FALSE)   \* KeyError, caught
             ELSE Ret([W EXCEPT !.memory_cache =
                                   [@ EXCEPT ![file_id] = WriteInto(@, pos, chunk)],
                                !.transfers = [@ EXCEPT ![file_id] = marked]], TRUE)
        ELSE IF temp = NoPath \/ temp \in W.dirs THEN Ret(W, FALSE)   \* open() raises, caught
             ELSE Ret([W EXCEPT !.files = (temp :> kept) @@ @,
                                !.transfers = [@ EXCEPT ![file_id] = marked]], TRUE)

\* the staging content of a live context: the buffer or the temp file (NoData when unreadable)
Staging(W, file_id) ==
    LET context == W.transfers[file_id]
        temp == Resolve(<< >>, context.temp_path, W.dirs)
    IN  IF context.use_memory THEN W.memory_cache[file_id]
        ELSE IF temp \in DOMAIN W.files THEN W.files[temp] ELSE NoData

\* FileManager.verify_file
verify_file(W, file_id) ==
    LET context == W.transfers[file_id]
        data == Staging(W, file_id)
    IN  IF ~context.live THEN Ret(W, NoData)
        ELSE IF data = NoData THEN Ret(W, NoData)
        ELSE Ret([W EXCEPT !.transfers = [@ EXCEPT ![file_id].checksum = crc32(data)]],
                 crc32(data))

\* FileManager.complete_transfer
complete_transfer(W, file_id) ==
    LET context == W.transfers[file_id]
        target_path == JoinPath(root_dir, context.filename)
        madedirs == MkdirParents(Resolve(<< >>, Parent(target_path), W.dirs), W.dirs)
        target == Resolve(<< >>, target_path, madedirs)
        data == Staging(W, file_id)
    IN  IF ~context.live THEN Ret(W, FALSE)
        ELSE IF Resolve(<< >>, Parent(target_path), W.dirs) = NoPath THEN Ret(W, FALSE)
        ELSE IF target = NoPath \/ target \in madedirs
        THEN Ret([W EXCEPT !.dirs = madedirs], FALSE)
        ELSE IF data = NoData
        \* open(target_path, "wb") has truncated the target before the cache is missed
        THEN Ret([W EXCEPT !.dirs = madedirs,
                           !.files = IF context.use_memory THEN (target :> << >>) @@ @
                                     ELSE @], FALSE)
        ELSE Ret([W EXCEPT !.dirs = madedirs,
                           !.files = (target :> data) @@ @,
                           !.memory_usage = IF context.use_memory THEN @ - Len(data) ELSE @,
                           !.memory_cache = IF context.use_memory
                                            THEN [@ EXCEPT ![file_id] = NoData] ELSE @,
                           !.transfers = [@ EXCEPT ![file_id] = NoCtx]], TRUE)

\* FileManager.cleanup_transfer
cleanup_transfer(W, file_id) ==
    LET context == W.transfers[file_id]
        temp == Resolve(<< >>, context.temp_path, W.dirs)
    IN  IF ~context.live THEN Ret(W, TRUE)
        ELSE IF context.use_memory
        THEN Ret([W EXCEPT !.transfers = [@ EXCEPT ![file_id] = NoCtx],
                           !.memory_usage = IF W.memory_cache[file_id] # NoData
                                            THEN @ - Len(W.memory_cache[file_id]) ELSE @,
                           !.memory_cache = [@ EXCEPT ![file_id] = NoData]], TRUE)
        ELSE Ret([W EXCEPT !.transfers = [@ EXCEPT ![file_id] = NoCtx],
                           !.files = IF temp \in DOMAIN @
                                     THEN [p \in (DOMAIN @) \ {temp} |-> @[p]] ELSE @], TRUE)

(***************************************************************************)
(* Frames.  A frame is its header fields and its payload.                  *)
(***************************************************************************)
MessageTypes ==
    { "HANDSHAKE", "FILE_REQUEST", "FILE_METADATA", "FILE_DATA", "CHECKSUM_VERIFY",
      "ERROR", "ACK", "RESUME_REQUEST", "CLOSE", "LIST_REQUEST", "LIST_RESPONSE",
      "NLST_REQUEST", "NLST_RESPONSE", "LIST_ERROR" }

ProtocolStates == { "INIT", "CONNECTED", "TRANSFERRING", "COMPLETED", "ERROR" }

Header(msg_type, sid, chunk, seq, checksum, payload) ==
    [ magic |-> PROTOCOL_MAGIC, version |-> ProtocolVersionV1, msg_type |-> msg_type,
      sequence_number |-> seq, checksum |-> checksum, chunk_number |-> chunk,
      session_id |-> sid, payload |-> payload ]

\* a reply built by MessageBuilder: its kind, the text of an Error, the sequence
\* number an Ack acknowledges, the chunk number in its header, the size in a FileMetadata,
\* the names in a ListResponse
Reply(msg_type, text, ack, chunk, size, names) ==
    [ msg_type |-> msg_type, text |-> text, ack |-> ack, chunk_number |-> chunk,
      size |-> size, names |-> names ]

build_error(text) == Reply("ERROR", text, -1, 0, -1, {})
build_handshake == Reply("HANDSHAKE", "", -1, 0, -1, {})
build_ack(received_seq) == Reply("ACK", "", received_seq, 0, -1, {})
\* build_chunk_ack with its two arguments exchanged
ChunkAckSwapped(received_seq, chunk_number) ==
    Reply("ACK", "", chunk_number, received_seq, -1, {})
build_chunk_ack(received_seq, chunk_number) == Reply("ACK", "", received_seq, chunk_number, -1, {})
build_file_metadata(size) == Reply("FILE_METADATA", "", -1, 0, size, {})
build_list_response(names) == Reply("LIST_RESPONSE", "", -1, 0, -1, names)
build_list_error(text) == Reply("LIST_ERROR", text, -1, 0, -1, {})

(***************************************************************************)
(* FileTransferService.  A handler gets the world W of its service, the    *)
(* service's protocol state and builder session id, its temp_dir and the   *)
(* frame, and returns what handle_message leaves behind: the world, the    *)
(* state, the session id, the reply, the handler that ran, the path the    *)
(* request resolved to and the path it published.                          *)
(***************************************************************************)
Outcome(W, st, sid, reply, handler, accessed, published) ==
    [ w |-> W, state |-> st, session_id |-> sid, reply |-> reply, handler |-> handler,
      accessed |-> accessed, published |-> published ]

\* FileTransferService._is_valid_state_transition
ValidTransitions(st) ==
    CASE st = "INIT" -> { "HANDSHAKE" }
      [] st = "CONNECTED" -> { "HANDSHAKE", "FILE_REQUEST", "LIST_REQUEST", "NLST_REQUEST",
                               "RESUME_REQUEST", "CLOSE" }
      [] st = "TRANSFERRING" -> { "HANDSHAKE", "FILE_DATA", "CHECKSUM_VERIFY", "ACK",
                                  "FILE_REQUEST", "RESUME_REQUEST" }
      [] st = "COMPLETED" -> { "FILE_REQUEST", "LIST_REQUEST", "NLST_REQUEST" }
      [] OTHER -> {}

is_valid_state_transition(st, msg_type) ==
    IF st = "ERROR" THEN TRUE
    ELSE IF msg_type = "FILE_DATA" /\ st \in { "CONNECTED", "TRANSFERRING" } THEN TRUE
    ELSE msg_type \in ValidTransitions(st)

\* _handle_handshake without the comparison of the version
HandshakeAnyVersion(W, st, sid, tdir, h) ==
    IF UnpackI(h.payload) = NoData
    THEN Outcome(W, st, sid, build_error("Invalid handshake payload"), "handshake", NoPath, NoPath)
    ELSE Outcome(W, "CONNECTED", sid, build_handshake, "handshake", NoPath, NoPath)

\* FileTransferService._handle_handshake
handle_handshake(W, st, sid, tdir, h) ==
    IF UnpackI(h.payload) = NoData
    THEN Outcome(W, st, sid, build_error("Invalid handshake payload"), "handshake", NoPath, NoPath)
    ELSE IF UnpackI(h.payload) # PackI(ProtocolVersionV1)
    THEN Outcome(W, st, sid, build_error("Version mismatch"), "handshake", NoPath, NoPath)
    ELSE Outcome(W, "CONNECTED", sid, build_handshake, "handshake", NoPath, NoPath)

\* FileTransferService._handle_checksum_verify
handle_checksum_verify(W, st, sid, tdir, h) ==
    LET expected_checksum == UnpackI(h.payload)
        file_id == h.session_id
        verified_ == verify_file(W, file_id)
        completed == complete_transfer(verified_.w, file_id)
        target == Resolve(<< >>, JoinPath(root_dir, W.transfers[file_id].filename),
                          completed.w.dirs)
    IN  IF expected_checksum = NoData
        THEN Outcome(W, st, sid, build_error("Invalid checksum payload"), "checksum_verify",
                     NoPath, NoPath)
        ELSE IF verified_.ret = NoData
        THEN Outcome(verified_.w, st, sid, build_error("Failed to verify file"),
                     "checksum_verify", NoPath, NoPath)
        ELSE IF verified_.ret # expected_checksum
        THEN Outcome(verified_.w, st, sid, build_error("Checksum mismatch"),
                     "checksum_verify", NoPath, NoPath)
        ELSE IF completed.ret
        THEN Outcome(completed.w, "COMPLETED", sid, build_ack(h.sequence_number),
                     "checksum_verify", target, target)
        ELSE Outcome(completed.w, st, sid, build_error("Failed to complete transfer"),
                     "checksum_verify", NoPath, NoPath)

\* the entries FileManager.list_files returns for the directory target
ListedNames(target, F, D, include_dirs) ==
    { name \in { p[Len(p)] : p \in { q \in (DOMAIN F) \cup D : q # << >> } } :
        \/ Append(target, name) \in DOMAIN F
        \/ include_dirs /\ Append(target, name) \in D }

\* FileTransferService._handle_list_request with ListRequest.from_bytes and
\* FileManager.list_files; the payload is format, filter and the path
handle_list_request(W, st, sid, tdir, h) ==
    LET data == h.payload
        format_type == UnpackI(SubSeq(data, 1, Min(4, Len(data))))
        filter_type == UnpackI(SubSeq(data, 5, Min(8, Len(data))))
        path == IF Len(data) > 8 THEN SubSeq(data, 9, Len(data)) ELSE << 47 >>
        target == Resolve(<< >>, JoinPath(root_dir, path), W.dirs)
        include_dirs == filter_type # PackI(1)
        names == IF target \in W.dirs
                 THEN { n \in ListedNames(target, W.files, W.dirs, include_dirs) :
                          /\ (filter_type # PackI(2) \/ Append(target, n) \in W.dirs)
                          /\ (filter_type # PackI(1) \/ Append(target, n) \notin W.dirs) }
                 ELSE {}
    IN  IF Len(data) < 8 \/ format_type \notin { PackI(1), PackI(2) }
           \/ filter_type \notin { PackI(0), PackI(1), PackI(2) }
           \/ ~Utf8Decodes(path)
        THEN Outcome(W, st, sid, build_list_error("invalid list request"), "list_request",
                     NoPath, NoPath)
        ELSE Outcome(W, st, sid, build_list_response(names), "list_request",
                     IF target \in W.dirs THEN target ELSE NoPath, NoPath)

\* FileTransferService._handle_file_request
handle_file_request(W, st, sid, tdir, h) ==
    LET filename == h.payload
        file_path == JoinPath(root_dir, filename)
        found == Resolve(<< >>, file_path, W.dirs)
        madedirs == MkdirParents(Resolve(<< >>, Parent(file_path), W.dirs), W.dirs)
        created == Resolve(<< >>, file_path, madedirs)
        \* file_path.touch() of a missing file
        touched == IF Exists(found, W.files, W.dirs) THEN W
                   ELSE [W EXCEPT !.dirs = madedirs, !.files = (created :> << >>) @@ @]
        file_size == Len(touched.files[created])
        prepared == prepare_transfer(touched, tdir, h.session_id, filename, file_size)
    IN  IF ~Utf8Decodes(filename)
        THEN Outcome(W, st, sid, build_error("Invalid filename encoding"), "file_request",
                     NoPath, NoPath)
        ELSE IF ~Exists(found, W.files, W.dirs)
                /\ (Resolve(<< >>, Parent(file_path), W.dirs) = NoPath \/ created = NoPath)
        THEN Outcome(W, st, sid, build_error("File request error"), "file_request",
                     NoPath, NoPath)
        ELSE IF ~prepared.ret.live
        THEN Outcome(touched, st, sid, build_error("File request error"), "file_request",
                     created, NoPath)
        ELSE Outcome(prepared.w, "TRANSFERRING", h.session_id,
                     build_file_metadata(file_size), "file_request", created, NoPath)

\* FileTransferService._handle_file_data
handle_file_data(W, st, sid, tdir, h) ==
    LET file_id == h.session_id
        context == W.transfers[file_id]
        total_chunks == Max(1, TotalChunks(context.file_size))
        expected_size == IF context.file_size > 0
                         THEN Min(chunk_size, context.file_size - h.chunk_number * chunk_size)
                         ELSE chunk_size
        written == write_chunk(W, file_id, h.payload, h.chunk_number)
    IN  IF ~context.live
        THEN Outcome(W, st, sid, build_error("No active transfer"), "file_data", NoPath, NoPath)
        ELSE IF h.chunk_number >= total_chunks
        THEN Outcome(W, st, sid, build_error("Invalid chunk number"), "file_data",
                     NoPath, NoPath)
        ELSE IF Len(h.payload) > expected_size
        THEN Outcome(W, st, sid, build_error("Chunk size exceeds limit"), "file_data",
                     NoPath, NoPath)
        ELSE IF ~written.ret
        THEN Outcome(W, st, sid, build_error("Failed to write chunk"), "file_data",
                     NoPath, NoPath)
        ELSE Outcome(written.w, st, sid, build_chunk_ack(h.sequence_number, h.chunk_number),
                     "file_data", NoPath, NoPath)

\* FileTransferService._handle_resume_request
handle_resume_request(W, st, sid, tdir, h) ==
    LET offset == UnpackQ(SubSeq(h.payload, 1, Min(8, Len(h.payload))))
        filename == SubSeq(h.payload, 9, Len(h.payload))
        file_path == JoinPath(root_dir, filename)
        found == Resolve(<< >>, file_path, W.dirs)
        file_size == Len(W.files[found])
        prepared == prepare_transfer(W, tdir, h.session_id, filename, file_size)
    IN  IF Len(h.payload) < 8 \/ ~Utf8Decodes(filename)
        THEN Outcome(W, st, sid, build_error("Invalid resume request payload"),
                     "resume_request", NoPath, NoPath)
        ELSE IF ~Exists(found, W.files, W.dirs)
        THEN Outcome(W, st, sid, build_error("File not found"), "resume_request",
                     NoPath, NoPath)
        ELSE IF offset > file_size
        THEN Outcome(W, st, sid, build_error("Invalid offset"), "resume_request",
                     NoPath, NoPath)
        ELSE IF ~prepared.ret.live
        THEN Outcome(W, st, sid, build_error("Resume error"), "resume_request", found, NoPath)
        ELSE Outcome(prepared.w, "TRANSFERRING", h.session_id, build_file_metadata(file_size),
                     "resume_request", found, NoPath)

\* FileTransferService._get_message_handler: the kinds that have a handler
HandledTypes ==
    { "HANDSHAKE", "FILE_REQUEST", "FILE_DATA", "CHECKSUM_VERIFY", "LIST_REQUEST",
      "RESUME_REQUEST" }

RunHandler(W, st, sid, tdir, h) ==
    CASE h.msg_type = "HANDSHAKE" -> handle_handshake(W, st, sid, tdir, h)
      [] h.msg_type = "FILE_REQUEST" -> handle_file_request(W, st, sid, tdir, h)
      [] h.msg_type = "FILE_DATA" -> handle_file_data(W, st, sid, tdir, h)
      [] h.msg_type = "CHECKSUM_VERIFY" -> handle_checksum_verify(W, st, sid, tdir, h)
      [] h.msg_type = "LIST_REQUEST" -> handle_list_request(W, st, sid, tdir, h)
      [] h.msg_type = "RESUME_REQUEST" -> handle_resume_request(W, st, sid, tdir, h)

\* the frame-checksum test of handle_message
ChecksumAccepted(h) == ~(h.checksum # ZeroU32 /\ h.checksum # crc32(h.payload))

\* the checks of handle_message that come before the handler: the text of the
\* Error reply of the first check that fails, "none" when the frame passes them all
GateError(st, h) ==
    IF h.magic # PROTOCOL_MAGIC THEN "Invalid magic number"
    ELSE IF h.version # ProtocolVersionV1 THEN "Version mismatch"
    ELSE IF ~is_valid_state_transition(st, h.msg_type) THEN "Invalid state transition"
    ELSE IF ~ChecksumAccepted(h) THEN "Checksum verification failed"
    ELSE "none"

\* the rest of handle_message: the handler of the frame's kind, or the Error reply
\* for a kind that has none
Dispatch(W, st, sid, tdir, h) ==
    IF h.msg_type \in HandledTypes
    THEN RunHandler(W, st, sid, tdir, h)
    ELSE Outcome(W, st, sid, build_error("Unsupported message type"), "none", NoPath, NoPath)

Rejected(W, st, sid, text) == Outcome(W, st, sid, build_error(text), "none", NoPath, NoPath)

\* FileTransferService.handle_message
handle_message(W, st, sid, tdir, h) ==
    IF GateError(st, h) # "none"
    THEN Rejected(W, st, sid, GateError(st, h))
    ELSE Dispatch(W, st, sid, tdir, h)

(***************************************************************************)
(* The frames clients send in the model.                                   *)
(***************************************************************************)
NameA == << 97 >>                     \* "a": not under root_dir at the start
NameB == << 98 >>                     \* "b": a file under root_dir at the start
NameEscape == << 46, 46, 47, 120 >>   \* "../x"
NameBadUtf8 == << 255 >>
FileNames == { NameA, NameB, NameEscape, NameBadUtf8 }

Ones(n) == [i \in 1..n |-> 1]

\* the payloads of FileData frames: an empty one, a short one and a full chunk
ChunkPayloads == { << >>, << 1 >>, Ones(chunk_size) }
ChunkNumbers == 0..(TotalChunks(MaxFileSize))
WrongCrc == << 1, 2, 3, 4 >>

HandshakePayloads == { PackI(ProtocolVersionV1), PackI(ProtocolVersionV1 + 1), << 1 >> }
ListPayloads == { PackI(2) \o PackI(0) \o path : path \in { << >>, DotDot } }
ResumePayloads ==
    { PackQ(offset) \o name : offset \in { 0, MaxFileSize + 2 }, name \in { NameA, NameB } }

BadChecksum(good) == IF good = << 0, 0, 0, 1 >> THEN << 0, 0, 0, 2 >> ELSE << 0, 0, 0, 1 >>

\* a frame as MessageBuilder._build_header makes it: checksum = crc32(payload)
Built(msg_type, sid, chunk, payload) ==
    Header(msg_type, sid, chunk, 0, crc32(payload), payload)

\* the frame with the sequence number the client's builder had when it built it; a
\* client that sends Handshake, FileRequest and the chunks in order numbers chunk c c + 2
Numbered(h, seq) == [h EXCEPT !.sequence_number = seq]

\* the checksums a ChecksumVerify may declare to service W: that of the staging content
\* of the addressed transfer, that of the empty content, and a wrong one
VerifyPayloads(W, sid) ==
    { ZeroU32, WrongCrc }
      \cup (IF W.transfers[sid].live /\ Staging(W, sid) # NoData
            THEN { crc32(Staging(W, sid)) } ELSE {})

\* the session id of every frame: MessageBuilder's default
ClientSessionId == 0

WellFormedFrames(W) ==
    { Built("HANDSHAKE", ClientSessionId, 0, p) : p \in HandshakePayloads }
      \cup { Built("FILE_REQUEST", ClientSessionId, 0, n) : n \in FileNames }
      \cup { Numbered(Built("FILE_DATA", ClientSessionId, c, p), c + 2) :
               c \in ChunkNumbers, p \in ChunkPayloads }
      \cup { Built("CHECKSUM_VERIFY", ClientSessionId, 0, p) :
               p \in VerifyPayloads(W, ClientSessionId) }
      \cup { Built("RESUME_REQUEST", ClientSessionId, 0, p) : p \in ResumePayloads }
      \cup { Built("LIST_REQUEST", ClientSessionId, 0, p) : p \in ListPayloads }
      \cup { Built("NLST_REQUEST", ClientSessionId, 0, PackI(0)),
             Built("CLOSE", ClientSessionId, 0, << >>),
             Built("ACK", ClientSessionId, 0, PackI(0)),
             Built("ERROR", ClientSessionId, 0, << >>) }

\* the frames sent with a checksum field that is not the CRC-32 of the payload
CorruptibleFrames ==
    { Built("HANDSHAKE", ClientSessionId, 0, PackI(ProtocolVersionV1)),
      Built("FILE_REQUEST", ClientSessionId, 0, NameA),
      Built("FILE_DATA", ClientSessionId, 0, << 1, 1 >>),
      Built("CLOSE", ClientSessionId, 0, << >>) }

MalformedFrames ==
    { [f EXCEPT !.checksum = ZeroU32] : f \in { g \in CorruptibleFrames : g.payload # << >> } }
      \cup { [f EXCEPT !.checksum = BadChecksum(f.checksum)] : f \in CorruptibleFrames }
      \cup { [Built("HANDSHAKE", ClientSessionId, 0, PackI(ProtocolVersionV1))
                 EXCEPT !.magic = 0],
             [Built("HANDSHAKE", ClientSessionId, 0, PackI(ProtocolVersionV1))
                 EXCEPT !.version = ProtocolVersionV1 + 1] }

\* the frames a client may send: well-formed ones, frames with a zero or a wrong
\* checksum field, and a handshake with a wrong magic number or version
ClientFrames(W) == WellFormedFrames(W) \cup MalformedFrames

(***************************************************************************)
(* The state after construction.                                           *)
(***************************************************************************)
NoFrame == Built("CLOSE", ClientSessionId, 0, << >>)

NoLast ==
    [ conn |-> 0, svc |-> 0, frame |-> NoFrame, reply |-> build_handshake,
      handler |-> "none", accessed |-> NoPath, published |-> NoPath, before |-> "INIT" ]

FreshTransfers == [id \in SessionIds |-> NoCtx]
FreshCache == [id \in SessionIds |-> NoData]

\* the file "b" under root_dir at the start: a file staged on disk (three chunks)
\* or a one-chunk file staged in memory
InitialContents == { Ones(MaxFileSize), Ones(chunk_size) }

Clients == Services

Backends == { "ProtocolServer", "AsyncProtocolServer", "SelectServer", "ThreadedServer" }

IdleConns ==
    [c \in Clients |->
        [ pc |-> "idle", sent |-> 0, frame |-> NoFrame, gate |-> "none", ok |-> TRUE,
          shut |-> FALSE ]]

\* no service has handled a frame yet
FreshServices ==
    /\ state = [s \in Services |-> "INIT"]
    /\ sequence_number = [s \in Services |-> 0]
    /\ session_id = [s \in Services |-> 0]
    /\ transfers = [s \in Services |-> FreshTransfers]
    /\ memory_cache = [s \in Services |-> FreshCache]
    /\ memory_usage = [s \in Services |-> 0]
    /\ verified = {}

Init ==
    /\ \E c \in InitialContents : files = (Append(root_dir, NameB) :> c)
    /\ dirs = { << >>, root_dir, temp_root }
    /\ FreshServices
    /\ sessions = [s \in Services |-> "free"]
    /\ backend = "AsyncProtocolServer"
    /\ conns = IdleConns
    /\ last = NoLast

(***************************************************************************)
(* SessionManager and the per-connection loop of ProtocolServer and        *)
(* AsyncProtocolServer: every accepted connection gets create_session, its *)
(* frames go to that session's service, and close_session ends it.  The    *)
(* sockets are taken to deliver every frame to handle_message, in any      *)
(* interleaving of the sessions; what the socket layer of each back-end    *)
(* does to a connection is in SpecServers.                                 *)
(***************************************************************************)
\* SessionManager.create_session; the sessions are numbered in the order of creation
create_session(s) ==
    /\ sessions[s] = "free"
    /\ \A r \in Services : r < s => sessions[r] # "free"
    /\ sessions' = [sessions EXCEPT ![s] = "open"]
    /\ dirs' = MkdirParents(TempDirOf(s), dirs)
    /\ state' = [state EXCEPT ![s] = "INIT"]
    /\ sequence_number' = [sequence_number EXCEPT ![s] = 0]
    /\ session_id' = [session_id EXCEPT ![s] = 1]
    /\ transfers' = [transfers EXCEPT ![s] = FreshTransfers]
    /\ memory_cache' = [memory_cache EXCEPT ![s] = FreshCache]
    /\ memory_usage' = [memory_usage EXCEPT ![s] = 0]
    /\ UNCHANGED << files, last, verified >>

\* close_session without the removal of the entry
CloseKeepsEntry(s) ==
    /\ sessions[s] = "open"
    /\ files' = [p \in { q \in DOMAIN files : ~IsPrefix(TempDirOf(s), q) } |-> files[p]]
    /\ dirs' = dirs \ { TempDirOf(s) }
    /\ UNCHANGED << sessions, state, session_id, transfers, memory_cache, memory_usage,
                    sequence_number, last, verified >>

\* close_session without the removal of the session's directory
CloseKeepsDir(s) ==
    /\ sessions[s] = "open"
    /\ sessions' = [sessions EXCEPT ![s] = "closed"]
    /\ state' = [state EXCEPT ![s] = "INIT"]
    /\ session_id' = [session_id EXCEPT ![s] = 0]
    /\ transfers' = [transfers EXCEPT ![s] = FreshTransfers]
    /\ memory_cache' = [memory_cache EXCEPT ![s] = FreshCache]
    /\ memory_usage' = [memory_usage EXCEPT ![s] = 0]
    /\ UNCHANGED << files, dirs, sequence_number, last, verified >>

\* SessionManager.close_session: the entry is popped (its service is dropped), every
\* entry of the session's directory is unlinked and the directory removed.  unlink
\* raises on a directory: the loop then stops wherever glob had got to, rmdir is
\* skipped and the error is only logged.
close_session(s) ==
    /\ sessions[s] = "open"
    /\ sessions' = [sessions EXCEPT ![s] = "closed"]
    /\ LET entries == { q \in DOMAIN files : Parent(q) = TempDirOf(s) }
       IN  IF \E d \in dirs : d # << >> /\ Parent(d) = TempDirOf(s)
           THEN /\ \E gone \in SUBSET entries :
                      files' = [p \in DOMAIN files \ gone |-> files[p]]
                /\ dirs' = dirs
           ELSE /\ files' = [p \in DOMAIN files \ entries |-> files[p]]
                /\ dirs' = dirs \ { TempDirOf(s) }
    /\ state' = [state EXCEPT ![s] = "INIT"]
    /\ session_id' = [session_id EXCEPT ![s] = 0]
    /\ transfers' = [transfers EXCEPT ![s] = FreshTransfers]
    /\ memory_cache' = [memory_cache EXCEPT ![s] = FreshCache]
    /\ memory_usage' = [memory_usage EXCEPT ![s] = 0]
    /\ UNCHANGED << sequence_number, last, verified >>

\* the state after service s has answered frame h of connection c with outcome out
Applied(s, c, h, out) ==
    /\ files' = out.w.files
    /\ dirs' = out.w.dirs
    /\ transfers' = [transfers EXCEPT ![s] = out.w.transfers]
    /\ memory_cache' = [memory_cache EXCEPT ![s] = out.w.memory_cache]
    /\ memory_usage' = [memory_usage EXCEPT ![s] = out.w.memory_usage]
    /\ state' = [state EXCEPT ![s] = out.state]
    /\ session_id' = [session_id EXCEPT ![s] = out.session_id]
    /\ sequence_number' = [sequence_number EXCEPT ![s] = @ + 1]
    /\ last' = [ conn |-> c, svc |-> s, frame |-> h, reply |-> out.reply,
                 handler |-> out.handler, accessed |-> out.accessed,
                 published |-> out.published, before |-> state[s] ]
    /\ verified' = IF out.published # NoPath THEN verified \cup { out.published }
                   ELSE verified

\* every reply built increments the sequence number of its service
FramesHandled == SumOver(sequence_number, Services)

\* _handle_client, on accept: the connection gets its session
OpenSession(s) == create_session(s) /\ UNCHANGED << backend, conns >>

\* one turn of the loop of _handle_client: receive a frame, handle it, send the reply
ServeFrame(s) ==
    /\ sessions[s] = "open"
    /\ FramesHandled < MaxFrames
    /\ \E h \in ClientFrames(World(s)) :
          Applied(s, s, h, handle_message(World(s), state[s], session_id[s], TempDirOf(s), h))
    /\ UNCHANGED << sessions, backend, conns >>

\* _handle_client, on disconnect
EndSession(s) == close_session(s) /\ UNCHANGED << backend, conns >>

Next ==
    \/ \E s \in Services : OpenSession(s)
    \/ \E s \in Services : ServeFrame(s)
    \/ \E s \in Services : EndSession(s)

Spec == Init /\ [][Next]_vars

(***************************************************************************)
(* One service in any protocol state, as the unit tests of the service put *)
(* it (service.message_builder.state = ...), fed arbitrary frames.         *)
(***************************************************************************)
InitAnyState ==
    /\ \E c \in InitialContents : files = (Append(root_dir, NameB) :> c)
    /\ dirs = { << >>, root_dir, temp_root, TempDirOf(1) }
    /\ \E st \in ProtocolStates : state = [s \in Services |-> IF s = 1 THEN st ELSE "INIT"]
    /\ sequence_number = [s \in Services |-> 0]
    /\ session_id = [s \in Services |-> IF s = 1 THEN 1 ELSE 0]
    /\ transfers = [s \in Services |-> FreshTransfers]
    /\ memory_cache = [s \in Services |-> FreshCache]
    /\ memory_usage = [s \in Services |-> 0]
    /\ verified = {}
    /\ sessions = [s \in Services |-> IF s = 1 THEN "open" ELSE "free"]
    /\ backend = "AsyncProtocolServer"
    /\ conns = IdleConns
    /\ last = NoLast

NextAnyState == ServeFrame(1)

SpecAnyState == InitAnyState /\ [][NextAnyState]_vars

(***************************************************************************)
(* A FileManager on its own, FileManager(root_dir, temp_dir), called       *)
(* through its public methods with arbitrary arguments.  Its fields are    *)
(* those of service 1.                                                     *)
(***************************************************************************)
MaxMemory == 5          \* memory_usage the model lets prepare_transfer reach

\* declared sizes on both sides of the hybrid threshold
FileSizes == { 0, HybridThreshold, MaxFileSize - 1, MaxFileSize }

\* the method called last and whether it succeeded
FMLast(op, ret) == [ op |-> op, ret |-> ret ]

InitFM ==
    /\ files = (Append(root_dir, NameB) :> Ones(MaxFileSize))
    /\ dirs = { << >>, root_dir, temp_root }
    /\ FreshServices
    /\ sessions = [s \in Services |-> "free"]
    /\ backend = "none"
    /\ conns = IdleConns
    /\ last = FMLast("none", FALSE)

\* the fields of the manager and the file system become those of W
Becomes(W) ==
    /\ files' = W.files
    /\ dirs' = W.dirs
    /\ transfers' = [transfers EXCEPT ![1] = W.transfers]
    /\ memory_cache' = [memory_cache EXCEPT ![1] = W.memory_cache]
    /\ memory_usage' = [memory_usage EXCEPT ![1] = W.memory_usage]
    /\ UNCHANGED << state, sequence_number, session_id, sessions, backend, conns, verified >>

PrepareTransfer ==
    \E file_size \in FileSizes :
        /\ memory_usage[1] + file_size <= MaxMemory
        /\ Becomes(prepare_transfer(World(1), temp_root, ClientSessionId, NameB, file_size).w)
        /\ last' = FMLast("prepare_transfer", TRUE)

WriteChunk ==
    \E chunk \in ChunkPayloads, chunk_number \in ChunkNumbers :
        /\ Becomes(write_chunk(World(1), ClientSessionId, chunk, chunk_number).w)
        /\ last' = FMLast("write_chunk",
                          write_chunk(World(1), ClientSessionId, chunk, chunk_number).ret)

VerifyFile ==
    /\ Becomes(verify_file(World(1), ClientSessionId).w)
    /\ last' = FMLast("verify_file",
                      verify_file(World(1), ClientSessionId).ret # NoData)

CompleteTransfer ==
    /\ Becomes(complete_transfer(World(1), ClientSessionId).w)
    /\ last' = FMLast("complete_transfer",
                      complete_transfer(World(1), ClientSessionId).ret)

CleanupTransfer ==
    /\ Becomes(cleanup_transfer(World(1), ClientSessionId).w)
    /\ last' = FMLast("cleanup_transfer", TRUE)

NextFM ==
    \/ PrepareTransfer
    \/ WriteChunk
    \/ VerifyFile
    \/ CompleteTransfer
    \/ CleanupTransfer

SpecFM == InitFM /\ [][NextFM]_vars

(***************************************************************************)
(* The four servers with their clients.  Each client uploads one file of   *)
(* its own with the frames of MessageBuilder: Handshake, FileRequest, the  *)
(* chunks in order, ChecksumVerify.  ProtocolServer serves one connection  *)
(* at a time from its accept loop and AsyncProtocolServer runs one task    *)
(* per connection, both with a session of the SessionManager for each;     *)
(* SelectServer (one loop) and ThreadedServer (one thread per connection)  *)
(* pass every frame to the one service made in __init__.                   *)
(***************************************************************************)
SharedService(b) == b \in { "SelectServer", "ThreadedServer" }

\* the service that answers connection c, and the temp_dir it was made with
ServiceOf(c) == IF SharedService(backend) THEN 1 ELSE c
TempDirFor(c) == IF SharedService(backend) THEN temp_root ELSE TempDirOf(c)

\* the file of client c: its name and the bytes the client sends
UploadName(c) == << 96 + c >>
UploadContent(c) == [i \in 1..HybridThreshold |-> IF i = c THEN 0 ELSE 1]

Script(c) ==
    << Built("HANDSHAKE", ClientSessionId, 0, PackI(ProtocolVersionV1)),
       Built("FILE_REQUEST", ClientSessionId, 0, UploadName(c)) >>
      \o [i \in 1..TotalChunks(HybridThreshold) |->
            Built("FILE_DATA", ClientSessionId, i - 1,
                  ReadAt(UploadContent(c), (i - 1) * chunk_size, chunk_size))]
      \o << Built("CHECKSUM_VERIFY", ClientSessionId, 0, crc32(UploadContent(c))) >>

InitServers ==
    /\ files = [p \in { Append(root_dir, UploadName(c)) : c \in Clients } |->
                  Zeros(HybridThreshold)]
    /\ dirs = { << >>, root_dir, temp_root }
    /\ FreshServices
    /\ sessions = [s \in Services |-> "free"]
    /\ backend \in Backends
    /\ conns = IdleConns
    /\ last = NoLast

Active(c) == conns[c].pc \in { "recv", "handling" }

\* accept(): ProtocolServer handles the connection inside its accept loop, so takes
\* the next one only when that call has returned.  No connection is accepted once
\* stop() has run, nor once the loop has ended: ProtocolSocket.close() reads
\* self.writer, which only an asynchronous socket has, so the AttributeError of the
\* first connection closed by ProtocolServer._handle_client or by
\* SelectServer._handle_client_error leaves start() through its "except Exception".
Accept(c) ==
    /\ conns[c].pc = "idle"
    /\ ~conns[c].shut
    /\ backend = "ProtocolServer" => \A d \in Clients : ~Active(d)
    /\ backend \in { "ProtocolServer", "SelectServer" }
         => \A d \in Clients : conns[d].pc # "closed"
    /\ conns' = [conns EXCEPT ![c].pc = "recv"]
    /\ IF SharedService(backend)
       THEN UNCHANGED << files, dirs, state, sequence_number, session_id, transfers,
                         memory_cache, memory_usage, sessions, last, verified >>
       ELSE create_session(c)
    /\ UNCHANGED backend

\* receive_message returns the client's next frame and handle_message starts: its
\* checks of the header read the state of the service.  Only ThreadedServer has
\* more than one thread that can be inside handle_message.  The loops of
\* SelectServer and ThreadedServer test _shutdown_flag before each frame, the loop of
\* SelectServer is the one that ends with the first connection closed, and
\* AsyncProtocolServer receives nothing: its ProtocolSocket is built without a
\* socket, and _async_recv unpacks self.socket as (reader, writer), which raises.
BeginHandle(c) ==
    /\ conns[c].pc = "recv"
    /\ conns[c].sent < Len(Script(c))
    /\ ~conns[c].shut
    /\ backend # "AsyncProtocolServer"
    /\ backend = "SelectServer" => \A d \in Clients : conns[d].pc # "closed"
    /\ backend # "ThreadedServer" => \A d \in Clients : conns[d].pc # "handling"
    /\ conns' = [conns EXCEPT ![c].pc = "handling",
                              ![c].frame = Script(c)[conns[c].sent + 1],
                              ![c].gate = GateError(state[ServiceOf(c)],
                                                    Script(c)[conns[c].sent + 1])]
    /\ UNCHANGED << files, dirs, state, sequence_number, session_id, transfers,
                    memory_cache, memory_usage, sessions, backend, last, verified >>

\* handle_message goes on to the handler and returns; the reply is sent
EndHandle(c) ==
    /\ conns[c].pc = "handling"
    /\ LET s == ServiceOf(c)
           h == conns[c].frame
           out == IF conns[c].gate # "none"
                  THEN Rejected(World(s), state[s], session_id[s], conns[c].gate)
                  ELSE Dispatch(World(s), state[s], session_id[s], TempDirFor(c), h)
       IN  /\ Applied(s, c, h, out)
           /\ conns' = [conns EXCEPT ![c].pc = "recv", ![c].sent = @ + 1,
                                     ![c].gate = "none",
                                     ![c].ok = @ /\ out.reply.msg_type # "ERROR"]
    /\ UNCHANGED << sessions, backend >>

\* the connection ends: the client closes its socket after the last reply, the
\* socket has been closed by stop(), or async_receive_message has raised
Disconnect(c) ==
    /\ conns[c].pc = "recv"
    /\ \/ conns[c].sent = Len(Script(c))
       \/ conns[c].shut
       \/ backend = "AsyncProtocolServer"
    /\ conns' = [conns EXCEPT ![c].pc = "closed"]
    /\ IF SharedService(backend)
       THEN UNCHANGED << files, dirs, state, sequence_number, session_id, transfers,
                         memory_cache, memory_usage, sessions, last, verified >>
       ELSE close_session(c)
    /\ UNCHANGED backend

\* stop() of SelectServer and of ThreadedServer, called from another thread than
\* the one that handles frames: it sets _shutdown_flag and closes the sockets of the
\* connected clients and the listening socket, and returns.  It joins no thread
\* and does not wait for a handle_message that is running.
Stop ==
    /\ SharedService(backend)
    /\ \E c \in Clients : ~conns[c].shut
    /\ conns' = [c \in Clients |->
                   [conns[c] EXCEPT !.shut = TRUE,
                                    !.pc = IF @ = "recv" THEN "closed" ELSE @]]
    /\ UNCHANGED << files, dirs, state, sequence_number, session_id, transfers,
                    memory_cache, memory_usage, sessions, backend, last, verified >>

NextServers ==
    \/ \E c \in Clients : Accept(c)
    \/ \E c \in Clients : BeginHandle(c)
    \/ \E c \in Clients : EndHandle(c)
    \/ \E c \in Clients : Disconnect(c)
    \/ Stop

SpecServers == InitServers /\ [][NextServers]_vars

(***************************************************************************)
(* The properties checked.                                                 *)
(***************************************************************************)
\* a step in which a service answers a frame
FrameStep == sequence_number' # sequence_number

\* the regular files under root_dir, and those there at the start
RootFiles == { p \in DOMAIN files : IsPrefix(root_dir, p) }
InitialRootFiles == { Append(root_dir, NameB) }
RootContent == [p \in RootFiles |-> files[p]]

\* the header is as MessageBuilder builds it
WellFormed(h) ==
    /\ h.magic = PROTOCOL_MAGIC
    /\ h.version = ProtocolVersionV1
    /\ h.checksum = crc32(h.payload)

\* C1: a file that was not under root_dir at the start is there if and only if
\* a ChecksumVerify for it has succeeded in some session
C1_RootFileIffVerified ==
    \A p \in (RootFiles \cup { q \in verified : IsPrefix(root_dir, q) }) \ InitialRootFiles :
        p \in DOMAIN files <=> p \in verified

\* C2: a ChecksumVerify publishes only when every chunk of the live context has been
\* received, the staged content is file_size bytes long and its CRC-32 is the one
\* the frame carries; otherwise no file under root_dir changes
C2_CommitAllOrNothing ==
    [][ (FrameStep /\ last'.frame.msg_type = "CHECKSUM_VERIFY")
          => IF last'.published # NoPath
             THEN LET s == last'.svc
                      id == last'.frame.session_id
                      context == transfers[s][id]
                  IN  /\ context.live
                      /\ context.chunks_received = 0..(TotalChunks(context.file_size) - 1)
                      /\ Staging(World(s), id) # NoData
                      /\ Len(Staging(World(s), id)) = context.file_size
                      /\ crc32(Staging(World(s), id)) = last'.frame.payload
             ELSE RootContent' = RootContent ]_vars

\* the kinds the state table of the specification allows in each state
C3_LegalKinds(st) ==
    { "ERROR", "LIST_ERROR" } \cup
    CASE st = "INIT" -> { "HANDSHAKE" }
      [] st = "CONNECTED" -> { "HANDSHAKE", "FILE_REQUEST", "RESUME_REQUEST", "LIST_REQUEST",
                               "NLST_REQUEST", "CLOSE", "ACK" }
      [] st = "TRANSFERRING" -> { "FILE_REQUEST", "FILE_DATA", "CHECKSUM_VERIFY",
                                  "RESUME_REQUEST", "LIST_REQUEST", "NLST_REQUEST", "CLOSE",
                                  "ACK" }
      [] st = "COMPLETED" -> { "FILE_REQUEST", "LIST_REQUEST", "NLST_REQUEST", "CLOSE", "ACK" }
      [] st = "ERROR" -> { "CLOSE", "ACK" }

\* C3: a frame whose kind is illegal in the current state gets an Error reply and
\* the state of the session becomes Error
C3_IllegalFrameMovesToError ==
    [][ (/\ FrameStep
         /\ WellFormed(last'.frame)
         /\ last'.frame.msg_type \notin C3_LegalKinds(last'.before))
          => /\ last'.reply.msg_type = "ERROR"
             /\ state'[last'.svc] = "ERROR" ]_vars

C5_OneWorkerPerService ==
    \A c \in Clients : \A d \in Clients \ {c} :
        /\ (Active(c) /\ Active(d)) => ServiceOf(c) # ServiceOf(d)
        /\ ~(/\ conns[c].pc = "handling"
             /\ conns[d].pc = "handling"
             /\ ServiceOf(c) = ServiceOf(d))

\* what belongs to the session of connection c: the protocol state, the contexts with
\* their received-chunk sets, the staging buffers and the temp files
SessionView(c) ==
    << state[ServiceOf(c)], transfers[ServiceOf(c)], memory_cache[ServiceOf(c)],
       [p \in { q \in DOMAIN files : IsPrefix(TempDirFor(c), q) } |-> files[p]] >>

AllSent == \A c \in Clients : conns[c].sent = Len(Script(c))

\* C6: no frame of one client changes anything of the session of another connected
\* client, and when all the clients have their last reply every upload has
\* succeeded and every published file holds the bytes its own client sent
C6_NoCrossTalk ==
    [][ \A c \in Clients :
          (conns'[c].sent # conns[c].sent)
            => /\ \A d \in Clients \ {c} : Active(d) => SessionView(d)' = SessionView(d)
               /\ AllSent' =>
                    \A d \in Clients :
                        /\ conns'[d].ok
                        /\ Append(root_dir, UploadName(d)) \in DOMAIN files'
                        /\ files'[Append(root_dir, UploadName(d))] = UploadContent(d) ]_vars

\* C7: the received-chunk set of every live context is a subset of
\* 0 .. total_chunks - 1, with total_chunks = ceil(file_size / chunk_size)
C7_ChunksWithinTotal ==
    \A s \in Services : \A id \in SessionIds :
        transfers[s][id].live
          => transfers[s][id].chunks_received
               \subseteq 0..(TotalChunks(transfers[s][id].file_size) - 1)

\* a FileData frame has just been accepted and its chunk is in the set
C7_ChunkReceived ==
    /\ last.svc # 0
    /\ last.handler = "file_data"
    /\ last.reply.msg_type = "ACK"
    /\ transfers[last.svc][last.frame.session_id].live
    /\ last.frame.chunk_number
         \in transfers[last.svc][last.frame.session_id].chunks_received

\* C8: the staging content of a transfer is never longer than file_size of its
\* context, and a write_chunk that would start at or end past file_size returns
\* False and leaves the staging content as it was
C8_StagingWithinFileSize ==
    \A id \in SessionIds :
        transfers[1][id].live =>
            /\ Staging(World(1), id) # NoData
                  => Len(Staging(World(1), id)) <= transfers[1][id].file_size
            /\ \A chunk \in ChunkPayloads, chunk_number \in ChunkNumbers :
                  (\/ chunk_number * chunk_size >= transfers[1][id].file_size
                   \/ chunk_number * chunk_size + Len(chunk) > transfers[1][id].file_size)
                    => /\ ~write_chunk(World(1), id, chunk, chunk_number).ret
                       /\ Staging(write_chunk(World(1), id, chunk, chunk_number).w, id)
                            = Staging(World(1), id)

\* C9: a path accepted in a FileRequest, ResumeRequest or ListRequest lies under
\* root_dir, and no request reads, creates or lists anything outside it
C9_PathsUnderRoot ==
    /\ last.accessed # NoPath => IsPrefix(root_dir, last.accessed)
    /\ \A p \in DOMAIN files : IsPrefix(root_dir, p) \/ IsPrefix(temp_root, p)
    /\ \A d \in dirs : IsPrefix(d, root_dir) \/ IsPrefix(root_dir, d) \/ IsPrefix(temp_root, d)

\* C10: a frame passed to a handler carries the CRC-32 of its payload, and a frame
\* whose checksum field differs from it is rejected and changes neither the protocol
\* state nor any staging content
C10_ChecksumGate ==
    [][ FrameStep
          => /\ last'.handler # "none" => last'.frame.checksum = crc32(last'.frame.payload)
             /\ last'.frame.checksum # crc32(last'.frame.payload)
                  => /\ last'.reply.msg_type = "ERROR"
                     /\ state' = state
                     /\ transfers' = transfers
                     /\ memory_cache' = memory_cache
                     /\ files' = files ]_vars

\* C11: a FileData frame is answered with an Ack only when write_chunk has stored its
\* bytes in the staging content at chunk_number * chunk_size and recorded the chunk;
\* that Ack carries the chunk number and acknowledges the sequence number of the
\* frame; a frame whose write fails is answered with an Error
C11_AckAfterWrite ==
    [][ (FrameStep /\ last'.frame.msg_type = "FILE_DATA")
          => LET s == last'.svc
                 h == last'.frame
                 id == h.session_id
                 written == write_chunk(World(s), id, h.payload, h.chunk_number)
             IN  /\ last'.reply.msg_type = "ACK"
                      => /\ last'.handler = "file_data"
                         /\ written.ret
                         /\ files' = written.w.files
                         /\ memory_cache'[s] = written.w.memory_cache
                         /\ transfers'[s] = written.w.transfers
                         /\ h.chunk_number \in written.w.transfers[id].chunks_received
                         /\ ReadAt(Staging(written.w, id), h.chunk_number * chunk_size,
                                   Len(h.payload)) = h.payload
                         /\ last'.reply.chunk_number = h.chunk_number
                         /\ last'.reply.ack = h.sequence_number
                 /\ ~written.ret => last'.reply.msg_type = "ERROR" ]_vars

\* a FileData frame with bytes in it has been acknowledged
C11_ChunkAcked ==
    /\ last.frame.msg_type = "FILE_DATA"
    /\ last.frame.payload # << >>
    /\ last.frame.sequence_number # last.frame.chunk_number
    /\ last.reply.msg_type = "ACK"

UploadContents == UNION { [1..k -> {0, 1}] : k \in 0..MaxFileSize }

\* what the client is to do: the file, its name, and the number of chunks it
\* delivers on its first connection (all of them unless it resumes)
Plans ==
    { p \in [ kind : { "fresh", "corrupt", "resume", "resume_twice" },
              name : { NameA, NameB }, content : UploadContents,
              cut : 0..TotalChunks(MaxFileSize) ] :
        IF p.kind \in { "fresh", "corrupt" }
        THEN p.cut = TotalChunks(Len(p.content))
        ELSE p.cut >= 1 /\ p.cut < TotalChunks(Len(p.content)) }

\* a step of the client: "connect", "send" frame h, or "disconnect"
Step(op, h) == [ op |-> op, frame |-> h ]

\* the FileData frames of chunks from..to-1 of F
DataFrames(F, from, to) ==
    [i \in 1..(to - from) |->
        Step("send", Numbered(Built("FILE_DATA", ClientSessionId, from + i - 1,
                                    ReadAt(F, (from + i - 1) * chunk_size, chunk_size)),
                              from + i + 1))]

Steps(p) ==
    LET F == p.content
        hello == Step("send", Built("HANDSHAKE", ClientSessionId, 0, PackI(ProtocolVersionV1)))
        request == Step("send", Built("FILE_REQUEST", ClientSessionId, 0, p.name))
        resume == Step("send", Built("RESUME_REQUEST", ClientSessionId, 0,
                                     PackQ(p.cut * chunk_size) \o p.name))
        verify == Step("send", Built("CHECKSUM_VERIFY", ClientSessionId, 0,
                                     IF p.kind = "corrupt" THEN BadChecksum(crc32(F))
                                     ELSE crc32(F)))
        again == << Step("disconnect", NoFrame), Step("connect", NoFrame), hello, resume >>
    IN  << Step("connect", NoFrame), hello, request >>
          \o DataFrames(F, 0, p.cut)
          \o (CASE p.kind = "resume" -> again
                [] p.kind = "resume_twice" -> Append(again, resume)
                [] OTHER -> << >>)
          \o DataFrames(F, p.cut, TotalChunks(Len(F)))
          \o << verify, Step("disconnect", NoFrame) >>

\* root_dir holds a file "b" of the size of the client's file; "a" is a new name
InitUpload ==
    /\ \E p \in Plans :
          /\ conns = [ plan |-> p, steps |-> Steps(p), pc |-> "idle", step |-> 0,
                       session |-> 0, replies |-> << >> ]
          /\ files = (Append(root_dir, NameB) :> Zeros(Len(p.content)))
    /\ dirs = { << >>, root_dir, temp_root }
    /\ FreshServices
    /\ sessions = [s \in Services |-> "free"]
    /\ backend \in Backends
    /\ last = NoLast

\* accept(): with a SessionManager the connection gets a session of its own.  The
\* accept loops of ProtocolServer and of SelectServer have ended when a connection
\* has been closed (see Accept), so only their first connection is accepted.
UploadConnect ==
    /\ conns.pc \in { "idle", "closed" }
    /\ backend \in { "ProtocolServer", "SelectServer" } => conns.pc = "idle"
    /\ conns.step < Len(conns.steps)
    /\ conns.steps[conns.step + 1].op = "connect"
    /\ conns' = [conns EXCEPT !.pc = "recv", !.step = @ + 1, !.session = @ + 1]
    /\ IF SharedService(backend)
       THEN UNCHANGED << files, dirs, state, sequence_number, session_id, transfers,
                         memory_cache, memory_usage, sessions, last, verified >>
       ELSE create_session(conns.session + 1)
    /\ UNCHANGED backend

\* the server receives the client's next frame, handles it and sends the reply;
\* AsyncProtocolServer receives nothing (see BeginHandle)
UploadSend ==
    /\ conns.pc = "recv"
    /\ backend # "AsyncProtocolServer"
    /\ conns.steps[conns.step + 1].op = "send"
    /\ LET s == IF SharedService(backend) THEN 1 ELSE conns.session
           tdir == IF SharedService(backend) THEN temp_root ELSE TempDirOf(conns.session)
           h == conns.steps[conns.step + 1].frame
           out == handle_message(World(s), state[s], session_id[s], tdir, h)
       IN  /\ Applied(s, conns.session, h, out)
           /\ conns' = [conns EXCEPT !.step = @ + 1,
                                     !.replies = Append(@, out.reply.msg_type)]
    /\ UNCHANGED << sessions, backend >>

\* the client closes its socket, or async_receive_message has raised and
\* AsyncProtocolServer closes the connection
UploadDisconnect ==
    /\ conns.pc = "recv"
    /\ \/ conns.steps[conns.step + 1].op = "disconnect"
       \/ backend = "AsyncProtocolServer"
    /\ conns' = [conns EXCEPT !.pc = "closed",
                              !.step = IF conns.steps[conns.step + 1].op = "disconnect"
                                       THEN @ + 1 ELSE @]
    /\ IF SharedService(backend)
       THEN UNCHANGED << files, dirs, state, sequence_number, session_id, transfers,
                         memory_cache, memory_usage, sessions, last, verified >>
       ELSE close_session(conns.session)
    /\ UNCHANGED backend

NextUpload == UploadConnect \/ UploadSend \/ UploadDisconnect

SpecUpload == InitUpload /\ [][NextUpload]_vars

\* the client has the reply to its last frame and has not hung up yet
UploadDone == conns.pc = "recv" /\ conns.step = Len(conns.steps) - 1

\* the replies a client expects on a connection that delivers n chunks
ExpectedReplies(first, n) == << "HANDSHAKE", first >> \o [i \in 1..n |-> "ACK"] \o << "ACK" >>

\* C13: a client that has sent Handshake, FileRequest(N) for a name N not under
\* root_dir, the FileData frames of all the chunks of F and ChecksumVerify(crc32(F))
\* has received a Handshake, FileMetadata, one Ack per chunk and a final Ack; the
\* session is Completed and root_dir/N holds exactly the bytes of F
C13_NewFileUploaded ==
    (UploadDone /\ conns.plan.kind = "fresh" /\ conns.plan.name = NameA)
      => /\ conns.replies = ExpectedReplies("FILE_METADATA",
                                            TotalChunks(Len(conns.plan.content)))
         /\ state[last.svc] = "COMPLETED"
         /\ Append(root_dir, NameA) \in DOMAIN files
         /\ files[Append(root_dir, NameA)] = conns.plan.content

\* the regular files under root_dir before the client's first frame
RootBeforeUpload == (Append(root_dir, NameB) :> Zeros(Len(conns.plan.content)))

\* C14: when the CRC-32 declared in a ChecksumVerify frame differs from the CRC-32 of
\* the staging content, the reply is Error "Checksum mismatch", the session does not
\* become Completed and root_dir holds exactly what it held before the upload began
C14_MismatchLeavesRoot ==
    [][ LET s == last'.svc
            h == last'.frame
        IN  (/\ FrameStep
             /\ h.msg_type = "CHECKSUM_VERIFY"
             /\ last'.handler = "checksum_verify"
             /\ transfers[s][h.session_id].live
             /\ Staging(World(s), h.session_id) # NoData
             /\ h.payload # crc32(Staging(World(s), h.session_id)))
              => /\ last'.reply.msg_type = "ERROR"
                 /\ last'.reply.text = "Checksum mismatch"
                 /\ state'[s] # "COMPLETED"
                 /\ [q \in { r \in DOMAIN files' : IsPrefix(root_dir, r) } |-> files'[q]]
                      = RootBeforeUpload ]_vars

\* C15: when a session has answered a FileRequest with FileMetadata it has exactly
\* one live context, and that context is the one the FileRequest created: no chunk
\* received and no staged byte of an earlier context of the session is in it
C15_FileRequestSupersedes ==
    (/\ last.frame.msg_type = "FILE_REQUEST"
     /\ last.reply.msg_type = "FILE_METADATA"
     /\ sessions[last.svc] = "open")
      => LET s == last.svc
             id == last.frame.session_id
         IN  /\ Cardinality({ i \in SessionIds : transfers[s][i].live }) = 1
             /\ transfers[s][id].live
             /\ transfers[s][id].filename = last.frame.payload
             /\ transfers[s][id].chunks_received = {}
             /\ Staging(World(s), id) \in { NoData, << >> }

\* the replies to Handshake, FileRequest or ResumeRequest, and n chunks, all accepted
PartReplies(n) == << "HANDSHAKE", "FILE_METADATA" >> \o [i \in 1..n |-> "ACK"]

\* C16: a client whose first chunks were acknowledged before it disconnected, and
\* that has reconnected and sent Handshake, ResumeRequest, the chunks not yet
\* delivered and ChecksumVerify(crc32 of the whole file), has received FileMetadata,
\* an Ack per chunk and the Ack of the verification, and root_dir/<filename> holds
\* the whole file
C16_ResumeCompletes ==
    LET p == conns.plan
        n == TotalChunks(Len(p.content))
    IN  (/\ UploadDone
         /\ p.kind = "resume"
         /\ SubSeq(conns.replies, 1, p.cut + 2) = PartReplies(p.cut))
          => /\ conns.replies = PartReplies(p.cut) \o PartReplies(n - p.cut) \o << "ACK" >>
             /\ Append(root_dir, p.name) \in DOMAIN files
             /\ files[Append(root_dir, p.name)] = p.content

\* the frame just handled repeats the ResumeRequest handled before it, both accepted
ResumeRepeated ==
    /\ FrameStep
    /\ last'.frame.msg_type = "RESUME_REQUEST"
    /\ last'.reply.msg_type = "FILE_METADATA"
    /\ last.frame = last'.frame
    /\ last.svc = last'.svc
    /\ last.reply.msg_type = "FILE_METADATA"

\* C17: handling the same ResumeRequest a second time leaves the set of received
\* chunks as it was, and the client that then sends the chunks from that offset on
\* and ChecksumVerify has the file published with the content a fresh upload gives
C17_ResumeIdempotent ==
    [][ LET s == last'.svc
            id == last'.frame.session_id
            p == conns.plan
        IN  /\ ResumeRepeated
                 => transfers'[s][id].chunks_received = transfers[s][id].chunks_received
            /\ (/\ FrameStep
                /\ UploadDone'
                /\ p.kind = "resume_twice"
                /\ SubSeq(conns.replies, 1, p.cut + 2) = PartReplies(p.cut))
                 => /\ last'.reply.msg_type = "ACK"
                    /\ Append(root_dir, p.name) \in DOMAIN files'
                    /\ files'[Append(root_dir, p.name)] = p.content ]_vars

C19_HandshakeConnects ==
    [][ (FrameStep /\ state[last'.svc] = "INIT")
          => LET s == last'.svc
                 h == last'.frame
                 matching == h.msg_type = "HANDSHAKE" /\ h.payload = PackI(ProtocolVersionV1)
             IN  /\ state'[s] = "CONNECTED" => matching /\ last'.reply = build_handshake
                 /\ (matching /\ WellFormed(h)) => state'[s] = "CONNECTED"
                 /\ (h.msg_type = "HANDSHAKE" /\ ~matching)
                      => last'.reply.msg_type = "ERROR" /\ state'[s] # "CONNECTED" ]_vars

\* a Handshake has connected a session that was in INIT
C19_Connected ==
    /\ last.frame.msg_type = "HANDSHAKE"
    /\ last.before = "INIT"
    /\ last.svc # 0
    /\ state[last.svc] = "CONNECTED"
    /\ last.reply.msg_type = "HANDSHAKE"

\* C20: a Close frame handled in CONNECTED, TRANSFERRING, COMPLETED or ERROR moves
\* the session to INIT; in INIT every frame but a Handshake is refused, and a Close
\* leaves the state INIT and changes no context, no staging content, no file and no
\* entry of the session table
C20_CloseResets ==
    [][ FrameStep
          => LET s == last'.svc
                 h == last'.frame
             IN  /\ (h.msg_type = "CLOSE" /\ WellFormed(h) /\ last'.before # "INIT")
                      => state'[s] = "INIT"
                 /\ (h.msg_type # "HANDSHAKE" /\ last'.before = "INIT")
                      => /\ last'.reply.msg_type = "ERROR"
                         /\ state'[s] = "INIT"
                 /\ (h.msg_type = "CLOSE" /\ last'.before = "INIT")
                      => /\ state'[s] = "INIT"
                         /\ transfers' = transfers
                         /\ memory_cache' = memory_cache
                         /\ files' = files
                         /\ sessions' = sessions ]_vars

\* C21: when a session acknowledges a frame (its reply is not an Error) right after
\* it acknowledged another, the sequence number of the later frame is greater than
\* that of the earlier one
C21_SequenceIncreases ==
    [][ (/\ FrameStep
         /\ last.svc = last'.svc
         /\ last.reply.msg_type # "ERROR"
         /\ last'.reply.msg_type # "ERROR")
          => last'.frame.sequence_number > last.frame.sequence_number ]_vars

\* C22: a frame that ProtocolHeader.from_bytes decodes (its magic number is right)
\* but whose version is unsupported or whose checksum is not the CRC-32 of its payload
\* ends its connection: the session is closed when the frame has been dealt with, and
\* the connection's service handles no frame after it
C22_FramingErrorEndsConnection ==
    [][ FrameStep
          => /\ (last'.frame.magic = PROTOCOL_MAGIC /\ ~WellFormed(last'.frame))
                  => sessions'[last'.svc] # "open"
             /\ last.svc = last'.svc
                  => ~(last.frame.magic = PROTOCOL_MAGIC /\ ~WellFormed(last.frame)) ]_vars

MaxTime == 3
max_age_minutes == 1

InitSessions ==
    /\ files = (Append(root_dir, NameB) :> Ones(MaxFileSize))
    /\ dirs = { << >>, root_dir, temp_root }
    /\ FreshServices
    /\ sessions = [s \in Services |-> "free"]
    /\ backend = "ProtocolServer"
    /\ conns = [ lock |-> "free", now |-> 0, stale |-> {},
                 last_active |-> [s \in Services |-> 0],
                 pc |-> [c \in Clients |-> "idle"],
                 sent |-> [c \in Clients |-> 0] ]
    /\ last = NoLast

\* len(self._sessions)
get_active_sessions_count == Cardinality({ s \in Services : sessions[s] = "open" })

\* _handle_client on accept: create_session, which stamps last_active with now
SessionAccept(c) ==
    /\ conns.pc[c] = "idle"
    /\ conns.lock = "free"
    /\ create_session(c)
    /\ conns' = [conns EXCEPT !.pc[c] = "open", !.last_active[c] = conns.now]
    /\ UNCHANGED backend

\* one turn of the loop of _handle_client: the frame goes to the service that
\* create_session returned; the SessionManager is not called.  The frames of a
\* connection are a Handshake, a FileRequest for the five-byte file "b", which
\* is staged on disk, and its first chunk.
SessionFrame(c) ==
    /\ conns.pc[c] = "open"
    /\ conns.sent[c] < 3
    /\ LET h == << Built("HANDSHAKE", ClientSessionId, 0, PackI(ProtocolVersionV1)),
                   Built("FILE_REQUEST", ClientSessionId, 0, NameB),
                   Built("FILE_DATA", ClientSessionId, 0, Ones(chunk_size))
                >>[conns.sent[c] + 1]
       IN  Applied(c, c, h, handle_message(World(c), state[c], session_id[c], TempDirOf(c), h))
    /\ conns' = [conns EXCEPT !.sent[c] = @ + 1]
    /\ UNCHANGED << sessions, backend >>

\* close_session called by thread t, which has to take the lock: by the thread of
\* connection t on disconnect, by the reaper (thread 0) for a session of its list
SessionClose(t) ==
    /\ conns.lock = "free"
    /\ IF t = 0
       THEN \E s \in conns.stale :
               /\ close_session(s)
               /\ conns' = [conns EXCEPT !.stale = @ \ { s }]
       ELSE /\ conns.pc[t] = "open"
            /\ close_session(t)
            /\ conns' = [conns EXCEPT !.pc[t] = "closed"]
    /\ UNCHANGED backend

\* cleanup_inactive_sessions up to its first call of close_session: it takes the
\* lock and lists the sessions idle for longer than max_age_minutes; with an empty
\* list it returns, otherwise it goes on to close_session with the lock held
Cleanup ==
    /\ conns.lock = "free"
    /\ LET inactive_sessions ==
             { s \in Services : /\ sessions[s] = "open"
                                /\ conns.now - conns.last_active[s] > max_age_minutes }
       IN  conns' = [conns EXCEPT !.stale = inactive_sessions,
                                  !.lock = IF inactive_sessions = {} THEN "free"
                                           ELSE "reaper"]
    /\ UNCHANGED << files, dirs, state, sequence_number, session_id, transfers,
                    memory_cache, memory_usage, sessions, backend, last, verified >>

\* datetime.now() advances
Tick ==
    /\ conns.now < MaxTime
    /\ conns' = [conns EXCEPT !.now = @ + 1]
    /\ UNCHANGED << files, dirs, state, sequence_number, session_id, transfers,
                    memory_cache, memory_usage, sessions, backend, last, verified >>

NextSessions ==
    \/ \E c \in Clients : SessionAccept(c)
    \/ \E c \in Clients : SessionFrame(c)
    \/ \E t \in Clients \cup { 0 } : SessionClose(t)
    \/ Cleanup
    \/ Tick

SpecSessions == InitSessions /\ [][NextSessions]_vars

\* every thread that can take its next step takes it
SpecSessionsFair ==
    /\ SpecSessions
    /\ \A t \in Clients \cup { 0 } : WF_vars(SessionClose(t))
    /\ WF_vars(Tick)

C25_StaleSessionsReaped ==
    (conns.stale # {}) ~> (conns.stale = {} /\ conns.lock = "free")

\* C26: a frame handled for a session stamps the session's last_active with the time
\* of the frame
C26_FrameTouchesSession ==
    [][ FrameStep => conns'.last_active[last'.svc] = conns'.now ]_vars

\* C27: once stop() has returned no frame is handled and neither a staging content
\* nor a file is changed
C27_NothingAfterStop ==
    [][ (\A c \in Clients : conns[c].shut)
          => /\ ~FrameStep
             /\ files' = files
             /\ transfers' = transfers
             /\ memory_cache' = memory_cache ]_vars

\* C29: under SelectServer, as long as stop() has not been called, a connected client
\* whose next frame has arrived is served when the loop is free, and a new client is
\* accepted, whatever the other clients have done
C29_SelectSessionsIndependent ==
    (backend = "SelectServer" /\ \A c \in Clients : ~conns[c].shut)
      => \A d \in Clients :
            /\ conns[d].pc = "idle" => ENABLED Accept(d)
            /\ (/\ conns[d].pc = "recv"
                /\ conns[d].sent < Len(Script(d))
                /\ \A e \in Clients : conns[e].pc # "handling")
                 => ENABLED BeginHandle(d)

(***************************************************************************)
(* ThreadedProtocolHandler: handle_message puts every frame it accepts on  *)
(* task_queue and returns; max_workers threads run _worker_loop on that    *)
(* one queue.  The frames are the FileData frames of one connection in     *)
(* state TRANSFERRING, numbered in the order received.  conns holds the    *)
(* queue, the frame each worker is handling (0: none) and the frames whose *)
(* handler has returned, in the order of return.                           *)
(***************************************************************************)
max_workers == 4

InitThreaded ==
    /\ files = (Append(root_dir, NameB) :> Ones(MaxFileSize))
    /\ dirs = { << >>, root_dir, temp_root }
    /\ FreshServices
    /\ sessions = [s \in Services |-> "free"]
    /\ backend = "ThreadedServer"
    /\ conns = [ received |-> 0, task_queue |-> << >>,
                 workers |-> [w \in 1..max_workers |-> 0], handled |-> << >> ]
    /\ last = NoLast

\* handle_message with _dispatch_message: task_queue.put((header, payload))
dispatch_message ==
    /\ conns.received < MaxFrames
    /\ conns' = [conns EXCEPT !.received = @ + 1,
                              !.task_queue = Append(@, conns.received + 1)]
    /\ UNCHANGED << files, dirs, state, sequence_number, session_id, transfers,
                    memory_cache, memory_usage, sessions, backend, last, verified >>

\* _worker_loop of worker w: task_queue.get(), then _process_message, which runs
\* the handler of the frame and returns
worker_loop(w) ==
    /\ \/ /\ conns.workers[w] = 0
          /\ conns.task_queue # << >>
          /\ conns' = [conns EXCEPT !.workers[w] = Head(conns.task_queue),
                                    !.task_queue = Tail(@)]
       \/ /\ conns.workers[w] # 0
          /\ conns' = [conns EXCEPT !.workers[w] = 0,
                                    !.handled = Append(@, conns.workers[w])]
    /\ UNCHANGED << files, dirs, state, sequence_number, session_id, transfers,
                    memory_cache, memory_usage, sessions, backend, last, verified >>

SpecThreaded ==
    InitThreaded /\ [][dispatch_message \/ \E w \in 1..max_workers : worker_loop(w)]_vars

\* C28: the handler of a frame starts only when the handlers of all the frames
\* received before it on the connection have returned
C28_FramesInReceiveOrder ==
    \A w \in 1..max_workers :
        conns.workers[w] # 0
          => \A f \in 1..(conns.workers[w] - 1) :
                \E k \in 1..Len(conns.handled) : conns.handled[k] = f

(***************************************************************************)
(* ChunkTracker(file_size, chunk_size) and its state file.  conns holds    *)
(* the tracker's fields and what save_state last wrote.                    *)
(***************************************************************************)
InitTracker ==
    /\ files = (Append(root_dir, NameB) :> Ones(MaxFileSize))
    /\ dirs = { << >>, root_dir, temp_root }
    /\ FreshServices
    /\ sessions = [s \in Services |-> "free"]
    /\ backend = "ThreadedServer"
    /\ \E n \in 0..MaxFileSize :
          conns = [ file_size |-> n, received_chunks |-> {},
                    total_chunks |-> (n + chunk_size - 1) \div chunk_size,
                    state_file |-> [ exists |-> FALSE, file_size |-> 0,
                                     received_chunks |-> {} ] ]
    /\ last = NoLast

mark_chunk_received(chunk_number) ==
    /\ conns' = IF 0 <= chunk_number /\ chunk_number < conns.total_chunks
                THEN [conns EXCEPT !.received_chunks = @ \cup { chunk_number }]
                ELSE conns
    /\ UNCHANGED << files, dirs, state, sequence_number, session_id, transfers,
                    memory_cache, memory_usage, sessions, backend, last, verified >>

mark_chunks_received(chunks) ==
    /\ conns' = [conns EXCEPT !.received_chunks = @ \cup chunks]
    /\ UNCHANGED << files, dirs, state, sequence_number, session_id, transfers,
                    memory_cache, memory_usage, sessions, backend, last, verified >>

save_state ==
    /\ conns' = [conns EXCEPT !.state_file = [ exists |-> TRUE,
                                               file_size |-> conns.file_size,
                                               received_chunks |-> conns.received_chunks ]]
    /\ UNCHANGED << files, dirs, state, sequence_number, session_id, transfers,
                    memory_cache, memory_usage, sessions, backend, last, verified >>

\* load_state: a new tracker made from the sizes in the file, whose set is
\* replaced by the list in the file
load_state ==
    /\ conns.state_file.exists
    /\ conns' = [conns EXCEPT
                   !.file_size = conns.state_file.file_size,
                   !.total_chunks = (conns.state_file.file_size + chunk_size - 1)
                                      \div chunk_size,
                   !.received_chunks = conns.state_file.received_chunks]
    /\ UNCHANGED << files, dirs, state, sequence_number, session_id, transfers,
                    memory_cache, memory_usage, sessions, backend, last, verified >>

\* the callers pass any chunk number and any set of chunk numbers up to one beyond
\* the largest file's
SpecTracker ==
    InitTracker
      /\ [][ \/ \E n \in (0 - 1)..(TotalChunks(MaxFileSize) + 1) : mark_chunk_received(n)
             \/ \E S \in SUBSET (0..TotalChunks(MaxFileSize)) : mark_chunks_received(S)
             \/ save_state
             \/ load_state ]_vars

\* C30: every index in received_chunks is in 0 .. total_chunks - 1, and
\* get_missing_chunks is empty exactly when every chunk has been marked
C30_ReceivedWithinTotal ==
    /\ conns.received_chunks \subseteq 0..(conns.total_chunks - 1)
    /\ ((0..(conns.total_chunks - 1)) \ conns.received_chunks = {})
         <=> ((0..(conns.total_chunks - 1)) \subseteq conns.received_chunks)

(***************************************************************************)
(* The staging resources of the FileManager (SpecFM).                      *)
(***************************************************************************)
\* C33: when complete_transfer has published or cleanup_transfer has returned,
\* the transfer's temp file and buffer are gone, and at all times memory_usage
\* is the declared size of the live in-memory transfer (0 when there is none)
C33_StagingReleased ==
    /\ ((last.op = "complete_transfer" /\ last.ret) \/ last.op = "cleanup_transfer")
         => /\ ~transfers[1][ClientSessionId].live
            /\ memory_cache[1][ClientSessionId] = NoData
            /\ JoinPath(temp_root, TempName(ClientSessionId, NameB)) \notin DOMAIN files
    /\ memory_usage[1] = IF /\ transfers[1][ClientSessionId].live
                            /\ transfers[1][ClientSessionId].use_memory
                         THEN transfers[1][ClientSessionId].file_size
                         ELSE 0

\* C36: prepare_transfer for a disk-staged transfer whose context was dropped
\* with the temp file kept (same file_id, filename and file_size) yields a
\* context whose chunks_received is the set of chunks that had been written
C36_ResumeFindsWritten ==
    [][ (/\ last'.op = "prepare_transfer"
         /\ transfers[1][ClientSessionId].live
         /\ ~transfers[1][ClientSessionId].use_memory
         /\ transfers'[1][ClientSessionId].file_size
              = transfers[1][ClientSessionId].file_size)
          => transfers'[1][ClientSessionId].chunks_received
               = transfers[1][ClientSessionId].chunks_received ]_vars

(***************************************************************************)
(* One service that receives a file F in chunks delivered in any order and *)
(* any number of times, as test_random_order_chunk_transfer and            *)
(* test_duplicate_chunk_handling do: Handshake, FileRequest, FileData      *)
(* frames of chunks of F, and ChecksumVerify once every chunk has been     *)
(* delivered.  root_dir holds a file of the name and of the size of F, so  *)
(* that the transfer is sized Len(F).  conns holds F, the chunk numbers    *)
(* delivered so far, the client's position and whether every FileData got *)
(* an Ack.                                                                 *)
(***************************************************************************)
MaxDeliveries == 4

InitShuffle ==
    /\ \E F \in { c \in UploadContents : Len(c) \in { HybridThreshold, MaxFileSize } } :
          /\ conns = [ content |-> F, delivered |-> << >>, pc |-> "handshake",
                       acked |-> TRUE ]
          /\ files = (Append(root_dir, NameB) :> Zeros(Len(F)))
    /\ dirs = { << >>, root_dir, temp_root }
    /\ FreshServices
    /\ sessions = [s \in Services |-> "free"]
    /\ backend = "ThreadedServer"
    /\ last = NoLast

\* the client's next frame is handled by the service: in "data" the chunk
\* numbered n of F or, when every chunk has been delivered, ChecksumVerify
\* (n = total_chunks)
ShuffleSend ==
    \E n \in 0..TotalChunks(Len(conns.content)) :
      LET F == conns.content
          verify == n = TotalChunks(Len(F))
          h == CASE conns.pc = "handshake" ->
                      Built("HANDSHAKE", ClientSessionId, 0, PackI(ProtocolVersionV1))
                 [] conns.pc = "request" -> Built("FILE_REQUEST", ClientSessionId, 0, NameB)
                 [] conns.pc = "data" /\ verify ->
                      Built("CHECKSUM_VERIFY", ClientSessionId, 0, crc32(F))
                 [] OTHER -> Built("FILE_DATA", ClientSessionId, n,
                                   ReadAt(F, n * chunk_size, chunk_size))
          out == handle_message(World(1), state[1], session_id[1], temp_root, h)
      IN  /\ conns.pc \in { "handshake", "request", "data" }
          /\ conns.pc # "data" => n = 0
          /\ (conns.pc = "data" /\ ~verify) => Len(conns.delivered) < MaxDeliveries
          /\ (conns.pc = "data" /\ verify)
               => \A k \in 0..(TotalChunks(Len(F)) - 1) :
                     \E i \in 1..Len(conns.delivered) : conns.delivered[i] = k
          /\ Applied(1, 1, h, out)
          /\ conns' = CASE conns.pc = "handshake" -> [conns EXCEPT !.pc = "request"]
                        [] conns.pc = "request" -> [conns EXCEPT !.pc = "data"]
                        [] conns.pc = "data" /\ verify -> [conns EXCEPT !.pc = "done"]
                        [] OTHER ->
                             [conns EXCEPT
                                !.delivered = Append(@, n),
                                !.acked = @ /\ out.reply.msg_type = "ACK"
                                            /\ out.reply.chunk_number = n]
          /\ UNCHANGED << sessions, backend >>

SpecShuffle == InitShuffle /\ [][ShuffleSend]_vars

\* C35: whatever the order and the repetitions of the FileData frames, each is
\* acknowledged with its chunk number, the received-chunk set is the set of
\* the chunks delivered, the staging content has the bytes of F at the chunks
\* delivered and zeros before them, and ChecksumVerify publishes F
C35_OrderAndMultiplicityIndependent ==
    LET F == conns.content
        S == { conns.delivered[i] : i \in 1..Len(conns.delivered) }
        top == CHOOSE k \in S : \A j \in S : j <= k
        expected == [i \in 1..Min((top + 1) * chunk_size, Len(F)) |->
                        IF ((i - 1) \div chunk_size) \in S THEN F[i] ELSE 0]
    IN  /\ conns.acked
        /\ conns.pc = "data"
             => /\ transfers[1][ClientSessionId].live
                /\ transfers[1][ClientSessionId].chunks_received = S
                /\ S # {} => Staging(World(1), ClientSessionId) = expected
        /\ conns.pc = "done"
             => /\ last.reply.msg_type = "ACK"
                /\ state[1] = "COMPLETED"
                /\ files[Append(root_dir, NameB)] = F

\* a file staged on disk has been published after its chunks arrived out of
\* order, one of them twice
C35_ShuffledPublished ==
    /\ conns.pc = "done"
    /\ Len(conns.content) = MaxFileSize
    /\ \E i, j \in 1..Len(conns.delivered) :
          i < j /\ conns.delivered[i] > conns.delivered[j]
    /\ \E i, j \in 1..Len(conns.delivered) :
          i < j /\ conns.delivered[i] = conns.delivered[j]
    /\ \E i \in 1..Len(conns.content) : conns.content[i] = 0

(***************************************************************************)
(* BaseProtocolHandler with the dispatch of SingleThreadedProtocolHandler: *)
(* handle_message is called with any header and payload.  The handler's    *)
(* state and sequence_number are those of service 1; last holds the frame  *)
(* (with one defect at most: magic, version or checksum),                  *)
(* the state before it and the kind whose registered handler ran ("none":  *)
(* no handler ran).  A registered handler is a callback of the user of the *)
(* class and may set the state, as those of the tests do.                  *)
(***************************************************************************)
\* a check that lets every checksum pass
VerifyAnyChecksum(h) == TRUE

\* BaseProtocolHandler.verify_checksum
verify_checksum(h) == h.checksum = crc32(h.payload)

BaseProtocolHandler_handle_message ==
    \E t \in MessageTypes, defect \in { "none", "magic", "version", "checksum" },
       seq \in 1..2, registered \in BOOLEAN, set \in ProtocolStates :
      LET payload == << 1 >>
          h == [Header(t, ClientSessionId, 0, seq,
                       IF defect = "checksum" THEN BadChecksum(crc32(payload))
                       ELSE crc32(payload),
                       payload)
                  EXCEPT !.magic = IF defect = "magic" THEN @ + 1 ELSE @,
                         !.version = IF defect = "version" THEN @ + 1 ELSE @]
          st == state[1]
          valid == /\ h.magic = PROTOCOL_MAGIC
                   /\ h.version = ProtocolVersionV1
                   /\ verify_checksum(h)
          can_process ==
              \/ /\ st = "CONNECTED"
                 /\ t \in { "FILE_REQUEST", "LIST_REQUEST", "NLST_REQUEST", "CLOSE",
                            "RESUME_REQUEST", "LIST_RESPONSE", "NLST_RESPONSE" }
              \/ /\ st = "TRANSFERRING"
                 /\ t \in { "FILE_DATA", "FILE_METADATA", "CHECKSUM_VERIFY", "CLOSE",
                            "LIST_RESPONSE", "NLST_RESPONSE" }
          dispatched ==
              /\ valid
              /\ \/ t \in { "ERROR", "LIST_ERROR", "HANDSHAKE" }
                 \/ t = "ACK" /\ st # "INIT"
                 \/ t \notin { "ERROR", "LIST_ERROR", "HANDSHAKE", "ACK" }
                      /\ st # "INIT" /\ can_process
          ran == dispatched /\ registered
      IN  /\ ~ran => set = "INIT"
          /\ state' = [state EXCEPT ![1] =
                          IF ran THEN set
                          ELSE IF valid /\ t \in { "ERROR", "LIST_ERROR" } THEN "ERROR"
                          ELSE @]
          /\ sequence_number' = [sequence_number EXCEPT ![1] =
                          IF dispatched /\ t \notin { "ERROR", "LIST_ERROR", "HANDSHAKE", "ACK" }
                          THEN h.sequence_number ELSE @]
          /\ last' = [NoLast EXCEPT !.frame = h, !.before = st,
                                    !.handler = IF ran THEN t ELSE "none"]
          /\ UNCHANGED << files, dirs, session_id, transfers, memory_cache,
                          memory_usage, sessions, backend, conns, verified >>

SpecHandler == InitThreaded /\ [][BaseProtocolHandler_handle_message]_vars

\* C37: a registered handler runs only for a frame that passes the magic, the
\* version and the CRC-32 check and whose kind is permitted in the state (in
\* INIT: Handshake, Error, ListError); a frame that fails a check or whose kind is
\* not permitted runs no handler and leaves state and sequence_number as they were
C37_HandlerOnlyForAcceptedFrames ==
    [][ LET h == last'.frame
            accepted ==
                /\ h.magic = PROTOCOL_MAGIC
                /\ h.version = ProtocolVersionV1
                /\ h.checksum = crc32(h.payload)
                /\ h.msg_type \in
                     CASE state[1] = "INIT" -> { "HANDSHAKE", "ERROR", "LIST_ERROR" }
                       [] state[1] = "CONNECTED" ->
                            { "HANDSHAKE", "ERROR", "LIST_ERROR", "ACK", "FILE_REQUEST",
                              "LIST_REQUEST", "NLST_REQUEST", "CLOSE", "RESUME_REQUEST",
                              "LIST_RESPONSE", "NLST_RESPONSE" }
                       [] state[1] = "TRANSFERRING" ->
                            { "HANDSHAKE", "ERROR", "LIST_ERROR", "ACK", "FILE_DATA",
                              "FILE_METADATA", "CHECKSUM_VERIFY", "CLOSE",
                              "LIST_RESPONSE", "NLST_RESPONSE" }
                       [] OTHER -> { "HANDSHAKE", "ERROR", "LIST_ERROR", "ACK" }
        IN  /\ (last'.handler # "none" /\ last' # last) => accepted
            /\ ~accepted => /\ last'.handler = "none"
                            /\ state' = state
                            /\ sequence_number' = sequence_number ]_vars

\* a FileData frame with a wrong checksum has been handled in TRANSFERRING, where
\* a handler had run before, and no handler ran for it
C37_BadFrameInTransferring ==
    /\ last.before = "TRANSFERRING"
    /\ last.frame.msg_type = "FILE_DATA"
    /\ last.frame.checksum # crc32(last.frame.payload)
    /\ last.handler = "none"
    /\ sequence_number[1] > 0

(***************************************************************************)
(* The lock of the SessionManager (SpecSessionsFair).                      *)
(***************************************************************************)
\* C38: a call of cleanup_inactive_sessions that has taken the session-table
\* lock returns and leaves the lock free, so that the calls of the other
\* threads that wait for the lock return too
C38_CleanupReleasesLock == (conns.lock = "reaper") ~> (conns.lock = "free")

(***************************************************************************)
(* DownloadManager.download_file, step by step, for one remote file and    *)
(* one local path.  conns holds the remote file, the three files of the    *)
(* download (temp: the partial file <name>.temp, state_file: the sidecar   *)
(* <name>.state, local: the file at local_path; NoData: absent), the       *)
(* variables of the running call (pc, chunk_tracker, todo: what is left of *)
(* sorted(missing_chunks) in the current pass of the outer loop) and, for  *)
(* the properties, in_temp (the chunks whose bytes have been written to    *)
(* the partial file that exists), pass_start (received_chunks when the     *)
(* pass began), loaded (the sidecar's list when the call began), requested *)
(* (the chunks the call has asked for), honest (the server has answered    *)
(* every request of the call with the bytes of the file) and result (of    *)
(* the last call).  The server answers a chunk request with anything: no   *)
(* FileData for that chunk, the chunk's bytes, other bytes, or an empty    *)
(* payload; _get_file_metadata fails or returns the size and the CRC-32 of *)
(* the remote file.  The process can stop between any two steps.           *)
(***************************************************************************)
download_file ==
    LET F == conns.remote
        all == 0..(TotalChunks(Len(F)) - 1)
        received == conns.chunk_tracker.received_chunks
        saved == [ exists |-> TRUE, file_size |-> conns.chunk_tracker.file_size,
                   received_chunks |-> received ]
    IN
    /\ \/ \* the call begins: metadata, _load_download_state, temp_file.touch()
          /\ conns.pc = "idle"
          /\ \E metadata \in BOOLEAN :
               IF ~metadata
               THEN conns' = [conns EXCEPT !.result = "failed", !.honest = FALSE]
               ELSE LET resumed == /\ conns.state_file.exists
                                   /\ conns.state_file.file_size = Len(F)
                        tracked == IF resumed THEN conns.state_file.received_chunks ELSE {}
                    IN  conns' = [conns EXCEPT
                           !.pc = "pass", !.result = "none", !.honest = TRUE,
                           !.chunk_tracker = [ file_size |-> Len(F),
                                               received_chunks |-> tracked ],
                           !.temp = IF @ = NoData THEN << >> ELSE @,
                           !.todo = all \ tracked, !.pass_start = tracked,
                           !.loaded = IF conns.state_file.exists
                                      THEN conns.state_file.received_chunks ELSE {},
                           !.requested = {}]
       \/ \* _download_chunk of the next missing chunk of the pass
          /\ conns.pc = "pass"
          /\ conns.todo # {}
          /\ LET chunk_number == CHOOSE n \in conns.todo : \A m \in conns.todo : n <= m
                 right == ReadAt(F, chunk_number * chunk_size, chunk_size)
             IN  \E reply \in { "none", "right", "wrong", "empty" } :
                   conns' =
                     CASE reply = "none" ->       \* not result.success: save_state, return
                            [conns EXCEPT !.pc = "idle", !.result = "failed",
                                          !.honest = FALSE, !.state_file = saved,
                                          !.requested = @ \cup { chunk_number }]
                       [] reply = "empty" ->      \* result.chunk_data is falsy: next chunk
                            [conns EXCEPT !.todo = @ \ { chunk_number }, !.honest = FALSE,
                                          !.requested = @ \cup { chunk_number }]
                       [] OTHER ->                \* f.seek, f.write, mark_chunk_received, f.flush
                            [conns EXCEPT
                               !.pc = "written",
                               !.temp = WriteInto(@, chunk_number * chunk_size,
                                                  IF reply = "right" THEN right
                                                  ELSE [right EXCEPT ![1] = 1 - @]),
                               !.in_temp = @ \cup { chunk_number },
                               !.chunk_tracker.received_chunks = @ \cup { chunk_number },
                               !.honest = @ /\ reply = "right",
                               !.todo = @ \ { chunk_number },
                               !.requested = @ \cup { chunk_number }]
       \/ \* chunk_tracker.save_state(state_file) after the chunk
          /\ conns.pc = "written"
          /\ conns' = [conns EXCEPT !.pc = "pass", !.state_file = saved]
       \/ \* the for loop is through: get_missing_chunks again
          /\ conns.pc = "pass"
          /\ conns.todo = {}
          /\ conns' = IF all \ received = {}
                      THEN [conns EXCEPT !.pc = "verify"]
                      ELSE [conns EXCEPT !.todo = all \ received, !.pass_start = received]
       \/ \* _calculate_file_checksum(temp_file) against the checksum of the metadata
          /\ conns.pc = "verify"
          /\ conns' = IF crc32(conns.temp) # crc32(F)
                      THEN [conns EXCEPT !.pc = "idle", !.result = "failed"]
                      ELSE [conns EXCEPT !.pc = "rename"]
       \/ \* temp_file.rename(local_path)
          /\ conns.pc = "rename"
          /\ conns' = [conns EXCEPT !.pc = "unlink", !.local = conns.temp,
                                    !.temp = NoData, !.in_temp = {}]
       \/ \* state_file.unlink(missing_ok=True); return success
          /\ conns.pc = "unlink"
          /\ conns' = [conns EXCEPT !.pc = "idle", !.result = "ok",
                                    !.state_file.exists = FALSE]
       \/ \* the process stops: what is on disk stays
          /\ conns.pc # "idle"
          /\ conns' = [conns EXCEPT !.pc = "idle", !.result = "aborted", !.honest = FALSE]
    /\ UNCHANGED << files, dirs, state, sequence_number, session_id, transfers,
                    memory_cache, memory_usage, sessions, backend, last, verified >>

InitDownload ==
    /\ files = (Append(root_dir, NameB) :> Ones(MaxFileSize))
    /\ dirs = { << >>, root_dir, temp_root }
    /\ FreshServices
    /\ sessions = [s \in Services |-> "free"]
    /\ backend = "none"
    /\ \E F \in { << >>, Ones(chunk_size + 1), Ones(MaxFileSize) } :
          conns = [ remote |-> F, temp |-> NoData, local |-> NoData,
                    state_file |-> [ exists |-> FALSE, file_size |-> 0,
                                     received_chunks |-> {} ],
                    pc |-> "idle",
                    chunk_tracker |-> [ file_size |-> 0, received_chunks |-> {} ],
                    todo |-> {}, pass_start |-> {}, in_temp |-> {}, loaded |-> {},
                    requested |-> {}, honest |-> FALSE, result |-> "none" ]
    /\ last = NoLast

SpecDownload == InitDownload /\ [][download_file]_vars

\* C31: at every point of download_file, and after the process has stopped at
\* any point, the chunks the sidecar lists are chunks whose bytes are in the
\* partial file
C31_SidecarWithinPartialFile ==
    conns.state_file.exists => conns.state_file.received_chunks \subseteq conns.in_temp

\* C32: a successful call leaves no sidecar and the whole file at the local path;
\* a call that fails or is aborted deletes neither the sidecar nor the partial
\* file; a call requests no chunk the sidecar lists; and a call that the server
\* answers with the file's bytes throughout completes with the file
C32_SidecarLifecycleAndResume ==
    [][ /\ (conns'.pc = "idle" /\ conns'.result = "ok")
             => ~conns'.state_file.exists /\ conns'.local = conns'.remote
        /\ (conns.pc \notin { "idle", "unlink" } /\ conns'.result \in { "failed", "aborted" })
             => /\ conns'.temp # NoData
                /\ conns.state_file.exists => conns'.state_file.exists
        /\ conns'.pc # "idle" => conns'.requested \cap conns'.loaded = {}
        /\ (conns'.pc = "idle" /\ conns'.honest)
             => /\ conns'.result = "ok"
                /\ conns'.local = conns'.remote ]_vars

\* C39: a pass of the outer loop that does not return has marked a chunk that
\* was missing when it began
C39_EveryPassProgresses ==
    [][ (conns.pc = "pass" /\ conns.todo = {} /\ conns'.pc = "pass")
          => conns.chunk_tracker.received_chunks # conns.pass_start ]_vars

(***************************************************************************)
(* NetworkTransferUtils.send_file for a file F that exists.  Each step     *)
(* sends one frame and receives the reply, which the server chooses: an    *)
(* Ack, an Error, a frame of another kind, or none (receive_message        *)
(* raises).  conns holds the frames sent (kind and chunk number), the      *)
(* replies received, the loop's chunk_number and the TransferResult.       *)
(***************************************************************************)
InitSend ==
    /\ files = (Append(root_dir, NameB) :> Ones(MaxFileSize))
    /\ dirs = { << >>, root_dir, temp_root }
    /\ FreshServices
    /\ sessions = [s \in Services |-> "free"]
    /\ backend = "none"
    /\ \E F \in UploadContents :
          conns = [ file |-> F, pc |-> "handshake", chunk_number |-> 0,
                    sent |-> << >>, replies |-> << >>, success |-> FALSE ]
    /\ last = NoLast

\* send_file, where the replies in acks let the chunk loop go on (in the code:
\* resp_header.msg_type != MessageType.ACK returns the failed result)
send_file_step(acks) ==
    /\ conns.pc # "returned"
    /\ \E resp \in { "ACK", "ERROR", "FILE_METADATA", "raise" } :
         LET chunk_data == ReadAt(conns.file, conns.chunk_number * chunk_size, chunk_size)
             frame == CASE conns.pc = "handshake" -> [ msg_type |-> "HANDSHAKE", chunk_number |-> 0 ]
                        [] conns.pc = "request" -> [ msg_type |-> "FILE_REQUEST", chunk_number |-> 0 ]
                        [] chunk_data = << >> -> [ msg_type |-> "CHECKSUM_VERIFY", chunk_number |-> 0 ]
                        [] OTHER -> [ msg_type |-> "FILE_DATA",
                                      chunk_number |-> conns.chunk_number ]
             logged == [conns EXCEPT !.sent = Append(@, frame), !.replies = Append(@, resp)]
             failed == [logged EXCEPT !.pc = "returned", !.success = FALSE]
         IN  conns' =
               CASE resp = "raise" -> failed
                 [] frame.msg_type = "HANDSHAKE" ->
                      IF resp = "ERROR" THEN failed ELSE [logged EXCEPT !.pc = "request"]
                 [] frame.msg_type = "FILE_REQUEST" ->
                      IF resp = "ERROR" THEN failed ELSE [logged EXCEPT !.pc = "data"]
                 [] frame.msg_type = "FILE_DATA" ->
                      IF resp \notin acks THEN failed
                      ELSE [logged EXCEPT !.chunk_number = @ + 1]
                 [] OTHER ->
                      IF resp # "ACK" THEN failed
                      ELSE [logged EXCEPT !.pc = "returned", !.success = TRUE]
    /\ UNCHANGED << files, dirs, state, sequence_number, session_id, transfers,
                    memory_cache, memory_usage, sessions, backend, last, verified >>

\* a sender that goes on to the next chunk whatever the reply
SendFileUnacknowledged == send_file_step({ "ACK", "ERROR", "FILE_METADATA" })

send_file == send_file_step({ "ACK" })

SpecSend == InitSend /\ [][send_file]_vars

\* C34: the FileData frames are sent in the order of their chunk numbers from 0;
\* the one for chunk n + 1 follows an Ack to the one for chunk n; ChecksumVerify
\* is sent when every chunk has been sent and acknowledged; and a reply to a
\* FileData frame that is no Ack is the last frame of the upload, which fails
C34_ChunkSequentialUpload ==
    LET data == { i \in 1..Len(conns.sent) : conns.sent[i].msg_type = "FILE_DATA" }
    IN  /\ \A i \in data :
              /\ conns.sent[i].chunk_number = Cardinality({ j \in data : j < i })
              /\ conns.sent[i].chunk_number > 0
                   => /\ i - 1 \in data
                      /\ conns.replies[i - 1] = "ACK"
              /\ conns.replies[i] # "ACK"
                   => /\ i = Len(conns.sent)
                      /\ conns.pc = "returned"
                      /\ ~conns.success
        /\ \A i \in 1..Len(conns.sent) :
              conns.sent[i].msg_type = "CHECKSUM_VERIFY"
                => /\ Cardinality(data) = TotalChunks(Len(conns.file))
                   /\ \A j \in data : j < i /\ conns.replies[j] = "ACK"

\* a file of three chunks has been uploaded to the end
C34_ThreeChunksUploaded ==
    /\ conns.pc = "returned"
    /\ conns.success
    /\ Len(conns.file) = MaxFileSize
    /\ Len(conns.sent) = TotalChunks(MaxFileSize) + 3

\* an upload has ended at a chunk that was answered with an Error
C34_ChunkRefused ==
    /\ conns.pc = "returned"
    /\ Len(conns.sent) = 4
    /\ conns.sent[4].msg_type = "FILE_DATA"
    /\ conns.replies[4] = "ERROR"

(***************************************************************************)
(* BaseSocket in THREADED mode.  The peer has sent the bytes 1, 2, ...;    *)
(* conns.wire holds those the reader thread has not received yet,          *)
(* conns.read_queue is _read_queue, conns.data and conns.size belong to    *)
(* the _recv_all call in progress and conns.returned is the concatenation  *)
(* of the results of the calls that have returned.                         *)
(***************************************************************************)
MaxRecv == 2

InitRecv ==
    /\ files = (Append(root_dir, NameB) :> Ones(MaxFileSize))
    /\ dirs = { << >>, root_dir, temp_root }
    /\ FreshServices
    /\ sessions = [s \in Services |-> "free"]
    /\ backend = "none"
    /\ conns = [ sent |-> [i \in 1..MaxFileSize |-> i],
                 wire |-> [i \in 1..MaxFileSize |-> i],
                 read_queue |-> << >>, pc |-> "idle", size |-> 0,
                 data |-> << >>, returned |-> << >> ]
    /\ last = NoLast

\* the reader thread: one socket.recv, which returns some of the bytes that
\* have arrived, and _read_queue.put
reader ==
    /\ \E n \in 1..Len(conns.wire) :
          conns' = [conns EXCEPT !.read_queue = Append(@, SubSeq(conns.wire, 1, n)),
                                 !.wire = SubSeq(@, n + 1, Len(@))]
    /\ UNCHANGED << files, dirs, state, sequence_number, session_id, transfers,
                    memory_cache, memory_usage, sessions, backend, last, verified >>

\* _recv_all(size) of the caller: the call, each _read_queue.get with the
\* extension of data, and the put of the surplus with the return
recv_all ==
    /\ \/ /\ conns.pc = "idle"
          /\ \E size \in 1..MaxRecv :
                conns' = [conns EXCEPT !.pc = "get", !.size = size, !.data = << >>]
       \/ /\ conns.pc = "get"
          /\ conns.read_queue # << >>
          /\ LET data == conns.data \o Head(conns.read_queue)
                 got  == [conns EXCEPT !.read_queue = Tail(@), !.data = data]
             IN  conns' = IF Len(data) > conns.size THEN [got EXCEPT !.pc = "put"]
                          ELSE IF Len(data) = conns.size
                               THEN [got EXCEPT !.pc = "idle", !.returned = @ \o data]
                               ELSE got
       \/ /\ conns.pc = "put"
          /\ conns' = [conns EXCEPT
                         !.read_queue = Append(@, SubSeq(conns.data, conns.size + 1,
                                                         Len(conns.data))),
                         !.data = SubSeq(@, 1, conns.size),
                         !.returned = @ \o SubSeq(conns.data, 1, conns.size),
                         !.pc = "idle"]
    /\ UNCHANGED << files, dirs, state, sequence_number, session_id, transfers,
                    memory_cache, memory_usage, sessions, backend, last, verified >>

SpecRecv == InitRecv /\ [][reader \/ recv_all]_vars

\* C40: the bytes returned by the successive _recv_all calls are the bytes the
\* peer sent, in the order sent, none lost, repeated or reordered
C40_ReturnedInSentOrder ==
    /\ Len(conns.returned) <= Len(conns.sent)
    /\ conns.returned = SubSeq(conns.sent, 1, Len(conns.returned))

====
